---- MODULE Spec2Model ----
(***************************************************************************)
(* The per-connection protocol engine of feeless, in its two generations:  *)
(*   - Channel    (node/src/channel.rs): run() and its recv_* handlers;    *)
(*   - Controller (src/node/controller/messages.rs): send_handshake and    *)
(*     the handle_* handlers, called by the owner of the connection.       *)
(* A node runs one of the two engines; `engine` says which one a           *)
(* behaviour follows.                                                       *)
(***************************************************************************)
EXTENDS Integers, Sequences, FiniteSets, TLC

\* ------------------------------------------------------------------ bounds
MaxCookie == 2      \* cookies are 1..MaxCookie (32 random bytes in the code)
MaxFrames == 2      \* headers the Channel's receive loop reads
MaxOps    == 3      \* calls made on the Controllers, or on a State object
MaxPeer     == 2    \* peers a keepalive slot can hold are 1..MaxPeer
MaxTrailing == 1    \* bytes that follow the last complete slot of a payload
MaxLen      == 3    \* payload lengths T::len(header) returns are 0..MaxLen
MaxStream   == 4    \* bytes the stream delivers before it ends are 0..MaxStream
MaxRef      == 2    \* wallet references (WalletId) are 1..MaxRef
MaxWallet   == 2    \* wallets (seeds, phrases, private keys) are 1..MaxWallet

\* --------------------------------------------------------------- constants
KeepalivePeers == 8

\* ------------------------------------------------------------------ values
Cookies  == 1..MaxCookie
NoCookie == 0
\* The seeds Seed::random() draws from.
Seeds    == {"seed1", "seed2"}

Networks     == {"live", "test"}
LocalNetwork == "live"
Versions      == {17, 18}
LocalVersions == {18}

\* The header's message types. The Controller's crate names the handshake type
\* MessageType::Handshake; it is the same tag as the Channel's NodeIdHandshake.
MessageType ==
    {"Keepalive", "Publish", "ConfirmReq", "ConfirmAck", "BulkPull", "BulkPush",
     "FrontierReq", "NodeIdHandshake", "BulkPullAccount", "TelemetryReq",
     "TelemetryAck"}

\* Extensions: the handshake flags of the extension bit field.
ExtensionsNew == {}
Query(ext)    == ext \cup {"query"}
Response(ext) == ext \cup {"response"}
IsQuery(ext)    == "query" \in ext
IsResponse(ext) == "response" \in ext
Extensions == SUBSET {"query", "response"}

HeaderNew(network, message_type, ext) ==
    [kind |-> "header", network |-> network, version_using |-> 18,
     message_type |-> message_type, ext |-> ext]

HeaderReset(h, message_type, ext) ==
    [h EXCEPT !.message_type = message_type, !.ext = ext]

Headers ==
    [kind : {"header"}, network : Networks, version_using : Versions,
     message_type : MessageType, ext : Extensions]

\* Option::None, and the value of a local that holds nothing yet.
None == [kind |-> "none"]

\* header.validate(&state): the network is the local one and the version is
\* one the local node supports.
HeaderValidate(h) ==
    /\ h.network = LocalNetwork
    /\ h.version_using \in LocalVersions

\* Signatures: a public key is derived from its private key; a signature
\* verifies exactly under the signer's public key over the signed bytes.
ToPublic(private) == [public_of |-> private]
Publics == {ToPublic(k) : k \in Seeds}
Sign(private, bytes) == [signer |-> ToPublic(private), msg |-> bytes]
Signatures == [signer : Publics, msg : Cookies]
Verify(public, bytes, signature) ==
    /\ signature.signer = public
    /\ signature.msg = bytes

NodeIdHandshakeQuery(cookie) == [kind |-> "query", cookie |-> cookie]
NodeIdHandshakeResponse(public, signature) ==
    [kind |-> "response", public |-> public, signature |-> signature]
Responses == [kind : {"response"}, public : Publics, signature : Signatures]

\* Error values of anyhow::Result<()>.
IoErrors   == {"TransportError"}
RecvErrors == {"TransportError", "FramingError", "DecodeError"}
Errors ==
    {"TransportError", "FramingError", "DecodeError", "MalformedHeader",
     "ValidationError", "AuthenticationFailed", "StateError"}

VARIABLES
    engine,      \* "channel" | "controller": the engine this node runs
    \* ---- Channel (node/src/channel.rs)
    ch_pc,       \* position of run()
    ch_ret,      \* what run() returned: "running", an error, or "Panic"
    ch_last,     \* Result of the last call run() applied `?` to
    ch_header,   \* Channel::header, the reusable header
    ch_cur,      \* the header the receive loop holds
    ch_i,        \* peers read by recv_keepalive
    ch_reply,    \* recv_node_id_handshake's locals public, signature (query branch)
    ch_response, \* the response the last handshake frame carried
    ch_cookie,   \* send_node_id_handshake's local cookie
    ch_store,    \* the state's cookie for Channel::peer_addr
    ch_out,      \* everything written to the stream, in order
    ch_reads,    \* recv calls made
    ch_frames,   \* headers received
    ch_replied,  \* items written in reply to the current frame
    ch_check,    \* the current frame's response check: none|skipped|passed|failed
    \* ---- Controller (src/node/controller/messages.rs), one per connection
    c_pc,        \* position inside the call in progress, or "idle"
    c_op,        \* the method called last
    c_asked,     \* the cookie of the query that call was given (NoCookie: none)
    c_src,       \* where its frame came from: "peer" (the peer's controller) or "wire"
    c_ret,       \* its result: "pending", "Ok", an error, or "Panic"
    c_header,    \* Controller::header, the reusable header
    c_local,     \* the locals of the call in progress
    c_sent,      \* what the call wrote to the stream, in order
    c_check,     \* the call's response check: none|skipped|passed|failed
    c_ops,       \* calls made so far
    c_mine,      \* the cookie the controller's send_handshake stored last
    state,       \* per node: the shared state's cookie store, address -> cookie
    lock         \* per node: the controller holding the state's lock

chvars == <<ch_pc, ch_ret, ch_last, ch_header, ch_cur, ch_i, ch_reply, ch_response, ch_cookie, ch_store,
            ch_out, ch_reads, ch_frames, ch_replied, ch_check>>

cvars == <<c_pc, c_op, c_asked, c_src, c_ret, c_header, c_local, c_sent,
           c_check, c_ops, c_mine, state, lock>>

\* ---- Keepalive as a Wire message (src/node/messages/keepalive.rs)
VARIABLES
    k_data,      \* the bytes given to Keepalive::deserialize
    k_pc,        \* "off" | "input" | "deserialized" | "serialized"
    k_result,    \* what deserialize returned
    k_bytes      \* what serialize of the decoded Keepalive returned

kvars == <<k_data, k_pc, k_result, k_bytes>>

\* ---- one State object (src/node/state/mod.rs) and its callers
VARIABLES
    s_cookies,   \* the cookie store: address -> cookie
    s_ledger,    \* the ledger part: blocks, latest hashes, hash -> account
    s_op,        \* the last call made and what it returned
    s_last,      \* per address, the cookie of the most recent successful set_cookie
    s_sets,      \* per address, the successful set_cookie calls made
    s_calls      \* calls made so far

svars == <<s_cookies, s_ledger, s_op, s_last, s_sets, s_calls>>

\* ---- Channel::recv and the receive buffer (src/node/src/channel.rs)
VARIABLES
    b_buf,       \* self.buffer.len()
    b_stream,    \* bytes the stream still delivers before it ends
    b_pc,        \* "off" | "idle" | "read" | "decode"
    b_want,      \* expected_len of the call in progress (or of the last call)
    b_read,      \* bytes_read of the call in progress (or of the last call)
    b_ret,       \* what the last call returned
    b_max,       \* the largest expected_len requested so far
    b_calls      \* calls made so far

bvars == <<b_buf, b_stream, b_pc, b_want, b_read, b_ret, b_max, b_calls>>

\* ---- the wallet file and the callers of a WalletManager (src/wallet/mod.rs)
VARIABLES
    w_file,      \* the file at WalletManager::path: missing, a storage, or unparseable
    w_pc,        \* per task: position inside the call in progress, or "idle"
    w_op,        \* per task: the call made last, its arguments and its number n
    w_store,     \* per task: the local `storage` of add and delete
    w_ret,       \* per task: what the last call returned
    w_before,    \* per task: the file as it was when the last call began
    w_gone,      \* references whose last successful add or delete was a delete
    w_have,      \* per reference: the wallet of its last successful add, if no
                 \* successful delete of it followed
    w_calls      \* calls made so far

wvars == <<w_file, w_pc, w_op, w_store, w_ret, w_before, w_gone, w_have, w_calls>>

\* ---- an amount in one of the units (src/units/mod.rs)
VARIABLES
    u_val,       \* the value held: its unit and its BigDecimal
    u_start,     \* the value the chain of conversions started from
    u_steps,     \* conversions made so far
    u_rai        \* what to_rai() of u_val returned last

uvars == <<u_val, u_start, u_steps, u_rai>>

\* The state of everything but the Channel and the Controllers.
xvars == <<kvars, svars, bvars, wvars, uvars>>

vars == <<engine, chvars, cvars, xvars>>

\* =================================================================== Channel

ChInit ==
    /\ ch_pc = "send_handshake_header"
    /\ ch_ret = "running"
    /\ ch_last = "Ok"
    /\ ch_header = HeaderNew(LocalNetwork, "NodeIdHandshake", ExtensionsNew)
    /\ ch_cur = None
    /\ ch_i = 0
    /\ ch_reply = None
    /\ ch_response = None
    /\ ch_cookie = NoCookie
    /\ ch_store = NoCookie
    /\ ch_out = <<>>
    /\ ch_reads = 0
    /\ ch_frames = 0
    /\ ch_replied = 0
    /\ ch_check = "none"

\* As ChReturn, with the error dropped and the receive loop entered again.
ChReturn_Continue(err) ==
    /\ ch_pc' = "recv_header"
    /\ ch_ret' = "running"
    /\ ch_last' = err

\* `?` on an Err: run() returns it.
ChReturn(err) ==
    /\ ch_pc' = "returned"
    /\ ch_ret' = err
    /\ ch_last' = err

\* self.send(item): write_all either writes the item or fails.
ChSend(item, next, result) ==
    IF result = "Ok"
    THEN /\ ch_out' = Append(ch_out, item)
         /\ ch_pc' = next
         /\ ch_last' = "Ok"
         /\ ch_ret' = ch_ret
    ELSE /\ ChReturn(result)
         /\ ch_out' = ch_out

\* send_header: a copy of self.header, reset, then sent.
ChSendHeader(message_type, ext, next, result) ==
    ChSend(HeaderReset(ch_header, message_type, ext), next, result)

\* send_node_id_handshake, first await: the query header.
ChSendHandshakeHeader ==
    /\ engine = "channel"
    /\ ch_pc = "send_handshake_header"
    /\ \E result \in {"Ok"} \cup IoErrors :
          ChSendHeader("NodeIdHandshake", Query(ExtensionsNew), "set_cookie", result)
    /\ UNCHANGED <<cvars, xvars, engine, ch_header, ch_cur, ch_i, ch_reply, ch_response, ch_cookie, ch_store,
                   ch_reads, ch_frames, ch_replied, ch_check>>

\* send_node_id_handshake: Cookie::random() and state.set_cookie(peer_addr, cookie).
ChSetCookie ==
    /\ engine = "channel"
    /\ ch_pc = "set_cookie"
    /\ \E cookie \in Cookies :
          /\ ch_cookie' = cookie
          /\ \/ /\ ch_store' = cookie
                /\ ch_pc' = "send_handshake_query"
                /\ ch_last' = "Ok"
                /\ ch_ret' = ch_ret
             \/ /\ ChReturn("StateError")
                /\ ch_store' = ch_store
    /\ UNCHANGED <<cvars, xvars, engine, ch_header, ch_cur, ch_i, ch_reply, ch_response, ch_out, ch_reads,
                   ch_frames, ch_replied, ch_check>>

\* send_node_id_handshake: the query payload carries the local cookie.
ChSendHandshakeQuery ==
    /\ engine = "channel"
    /\ ch_pc = "send_handshake_query"
    /\ \E result \in {"Ok"} \cup IoErrors :
          ChSend(NodeIdHandshakeQuery(ch_cookie), "send_telemetry_req", result)
    /\ UNCHANGED <<cvars, xvars, engine, ch_header, ch_cur, ch_i, ch_reply, ch_response, ch_cookie, ch_store,
                   ch_reads, ch_frames, ch_replied, ch_check>>

\* As ChSendTelemetryReq, with the receive loop entered before the request
\* is written.
ChSendTelemetryReq_Late ==
    /\ engine = "channel"
    /\ ch_pc = "send_telemetry_req"
    /\ ch_pc' = "recv_header"
    /\ UNCHANGED <<cvars, xvars, engine, ch_ret, ch_last, ch_out, ch_header, ch_cur, ch_i, ch_reply,
                   ch_response, ch_cookie, ch_store, ch_reads, ch_frames, ch_replied,
                   ch_check>>

\* send_telemetry_req: a TelemetryReq header and no payload.
ChSendTelemetryReq ==
    /\ engine = "channel"
    /\ ch_pc = "send_telemetry_req"
    /\ \E result \in {"Ok"} \cup IoErrors :
          ChSendHeader("TelemetryReq", ExtensionsNew, "recv_header", result)
    /\ UNCHANGED <<cvars, xvars, engine, ch_header, ch_cur, ch_i, ch_reply, ch_response, ch_cookie, ch_store,
                   ch_reads, ch_frames, ch_replied, ch_check>>

\* As ChDispatch, with a message type that has no handler skipped.
ChDispatch_SkipsUnknown(h) ==
    CASE h.message_type = "Keepalive"       -> "recv_keepalive"
      [] h.message_type = "Publish"         -> "recv_publish"
      [] h.message_type = "ConfirmReq"      -> "recv_confirm_req"
      [] h.message_type = "ConfirmAck"      -> "recv_confirm_ack"
      [] h.message_type = "NodeIdHandshake" ->
            IF IsQuery(h.ext) THEN "hs_recv_query"
            ELSE IF IsResponse(h.ext) THEN "hs_recv_response"
            ELSE "recv_header"
      [] h.message_type = "TelemetryReq"    -> "recv_telemetry_req"
      [] OTHER                              -> "recv_header"

\* The match of run(): the handler a validated header is dispatched to.
ChDispatch(h) ==
    CASE h.message_type = "Keepalive"       -> "recv_keepalive"
      [] h.message_type = "Publish"         -> "recv_publish"
      [] h.message_type = "ConfirmReq"      -> "recv_confirm_req"
      [] h.message_type = "ConfirmAck"      -> "recv_confirm_ack"
      [] h.message_type = "NodeIdHandshake" ->
            IF IsQuery(h.ext) THEN "hs_recv_query"
            ELSE IF IsResponse(h.ext) THEN "hs_recv_response"
            ELSE "recv_header"
      [] h.message_type = "TelemetryReq"    -> "recv_telemetry_req"
      [] OTHER                              -> "panicked"

\* As ChAfterHeader, with the header dispatched without validation.
ChAfterHeader_Unvalidated(h) ==
    IF ChDispatch(h) = "panicked"
    THEN [pc |-> "panicked", ret |-> "Panic", last |-> "Ok"]
    ELSE [pc |-> ChDispatch(h), ret |-> "running", last |-> "Ok"]

\* As ChAfterHeader, with the loop left with Ok(()) on a type without handler.
ChAfterHeader_UnknownEndsOk(h) ==
    IF ~HeaderValidate(h)
    THEN [pc |-> "returned", ret |-> "ValidationError", last |-> "ValidationError"]
    ELSE IF ChDispatch(h) = "panicked"
    THEN [pc |-> "returned", ret |-> "Ok", last |-> "Ok"]
    ELSE [pc |-> ChDispatch(h), ret |-> "running", last |-> "Ok"]

\* run() between the header read and the handler: validate, then dispatch.
ChAfterHeader(h) ==
    IF ~HeaderValidate(h)
    THEN [pc |-> "returned", ret |-> "ValidationError", last |-> "ValidationError"]
    ELSE IF ChDispatch(h) = "panicked"
    THEN [pc |-> "panicked", ret |-> "Panic", last |-> "Ok"]
    ELSE [pc |-> ChDispatch(h), ret |-> "running", last |-> "Ok"]

\* The loop head: recv::<Header>(None), validate, match.
ChRecvHeader ==
    /\ engine = "channel"
    /\ ch_pc = "recv_header"
    /\ ch_frames < MaxFrames
    /\ ch_reads' = ch_reads + 1
    /\ \/ \E err \in RecvErrors :
            /\ ChReturn(err)
            /\ UNCHANGED <<ch_cur, ch_response, ch_frames, ch_replied, ch_check>>
       \/ \E h \in Headers :
            /\ ch_cur' = h
            /\ ch_response' = None
            /\ ch_frames' = ch_frames + 1
            /\ ch_replied' = 0
            /\ ch_check' = "none"
            /\ ch_pc' = ChAfterHeader(h).pc
            /\ ch_ret' = ChAfterHeader(h).ret
            /\ ch_last' = ChAfterHeader(h).last
    /\ UNCHANGED <<cvars, xvars, engine, ch_header, ch_i, ch_reply, ch_cookie, ch_store, ch_out>>

\* As ChRecvKeepalive, with a loop that ends one slot early.
ChRecvKeepalive_SevenSlots ==
    /\ engine = "channel"
    /\ ch_pc = "recv_keepalive"
    /\ ch_reads' = ch_reads + 1
    /\ \/ \E err \in RecvErrors :
            /\ ChReturn(err)
            /\ ch_i' = ch_i
            /\ ch_cur' = ch_cur
       \/ /\ ch_last' = "Ok"
          /\ ch_ret' = ch_ret
          /\ IF ch_i + 1 = KeepalivePeers - 1
             THEN ch_i' = 0 /\ ch_pc' = "recv_header" /\ ch_cur' = None
             ELSE ch_i' = ch_i + 1 /\ ch_pc' = ch_pc /\ ch_cur' = ch_cur
    /\ UNCHANGED <<cvars, xvars, engine, ch_header, ch_reply, ch_response, ch_cookie, ch_store, ch_out,
                   ch_frames, ch_replied, ch_check>>

\* recv_keepalive: eight recv::<Peer> in a row.
ChRecvKeepalive ==
    /\ engine = "channel"
    /\ ch_pc = "recv_keepalive"
    /\ ch_reads' = ch_reads + 1
    /\ \/ \E err \in RecvErrors :
            /\ ChReturn(err)
            /\ ch_i' = ch_i
            /\ ch_cur' = ch_cur
       \/ /\ ch_last' = "Ok"
          /\ ch_ret' = ch_ret
          /\ IF ch_i + 1 = KeepalivePeers
             THEN ch_i' = 0 /\ ch_pc' = "recv_header" /\ ch_cur' = None
             ELSE ch_i' = ch_i + 1 /\ ch_pc' = ch_pc /\ ch_cur' = ch_cur
    /\ UNCHANGED <<cvars, xvars, engine, ch_header, ch_reply, ch_response, ch_cookie, ch_store, ch_out,
                   ch_frames, ch_replied, ch_check>>

\* A handler that is one recv::<T>(Some(&header)) and Ok(()).
ChRecvOnly(at, errors) ==
    /\ engine = "channel"
    /\ ch_pc = at
    /\ ch_reads' = ch_reads + 1
    /\ \/ \E err \in errors : ChReturn(err) /\ ch_cur' = ch_cur
       \/ /\ ch_pc' = "recv_header"
          /\ ch_last' = "Ok"
          /\ ch_ret' = ch_ret
          /\ ch_cur' = None
    /\ UNCHANGED <<cvars, xvars, engine, ch_header, ch_i, ch_reply, ch_response, ch_cookie, ch_store,
                   ch_out, ch_frames, ch_replied, ch_check>>

\* T::len(header)? fails for a block type the header does not name.
ChRecvPublish      == ChRecvOnly("recv_publish", RecvErrors \cup {"MalformedHeader"})
ChRecvConfirmReq   == ChRecvOnly("recv_confirm_req", RecvErrors \cup {"MalformedHeader"})
ChRecvConfirmAck   == ChRecvOnly("recv_confirm_ack", RecvErrors \cup {"MalformedHeader"})
ChRecvTelemetryReq == ChRecvOnly("recv_telemetry_req", RecvErrors)

\* recv_node_id_handshake, query branch: the reply signs the query's cookie
\* with a key derived from a fresh random seed.
ChHandshakeReply(seed, cookie) ==
    NodeIdHandshakeResponse(ToPublic(seed), Sign(seed, cookie))

ChHsRecvQuery ==
    /\ engine = "channel"
    /\ ch_pc = "hs_recv_query"
    /\ ch_reads' = ch_reads + 1
    /\ \/ \E err \in RecvErrors :
            /\ ChReturn(err)
            /\ ch_reply' = ch_reply
       \/ \E cookie \in Cookies, seed \in Seeds :
            /\ ch_reply' = ChHandshakeReply(seed, cookie)
            /\ ch_pc' = "hs_send_header"
            /\ ch_last' = "Ok"
            /\ ch_ret' = ch_ret
    /\ UNCHANGED <<cvars, xvars, engine, ch_header, ch_cur, ch_i, ch_response, ch_cookie, ch_store, ch_out,
                   ch_frames, ch_replied, ch_check>>

\* As ChHsSendHeader, with self.header itself reset and sent.
ChHsSendHeader_InPlace ==
    /\ engine = "channel"
    /\ ch_pc = "hs_send_header"
    /\ ch_header' = HeaderReset(ch_header, "NodeIdHandshake", Response(ExtensionsNew))
    /\ \E result \in {"Ok"} \cup IoErrors :
          /\ ChSend(ch_header', "hs_send_response", result)
          /\ ch_replied' = IF result = "Ok" THEN ch_replied + 1 ELSE ch_replied
    /\ UNCHANGED <<cvars, xvars, engine, ch_cur, ch_i, ch_reply, ch_response, ch_cookie, ch_store,
                   ch_reads, ch_frames, ch_check>>

\* recv_node_id_handshake, query branch: the response header, from a copy of
\* self.header.
ChHsSendHeader ==
    /\ engine = "channel"
    /\ ch_pc = "hs_send_header"
    /\ \E result \in {"Ok"} \cup IoErrors :
          /\ ChSend(HeaderReset(ch_header, "NodeIdHandshake", Response(ExtensionsNew)),
                    "hs_send_response", result)
          /\ ch_replied' = IF result = "Ok" THEN ch_replied + 1 ELSE ch_replied
    /\ UNCHANGED <<cvars, xvars, engine, ch_header, ch_cur, ch_i, ch_reply, ch_response, ch_cookie, ch_store,
                   ch_reads, ch_frames, ch_check>>

\* recv_node_id_handshake, query branch: the response payload; then the
\* response branch if the header has the response bit, else Ok(()).
ChHsSendResponse ==
    /\ engine = "channel"
    /\ ch_pc = "hs_send_response"
    /\ \E result \in {"Ok"} \cup IoErrors :
          /\ ChSend(ch_reply,
                    IF IsResponse(ch_cur.ext) THEN "hs_recv_response" ELSE "recv_header",
                    result)
          /\ ch_replied' = IF result = "Ok" THEN ch_replied + 1 ELSE ch_replied
          /\ IF result = "Ok" /\ ~IsResponse(ch_cur.ext)
             THEN ch_cur' = None /\ ch_reply' = None
             ELSE ch_cur' = ch_cur /\ ch_reply' = ch_reply
    /\ UNCHANGED <<cvars, xvars, engine, ch_header, ch_i, ch_response, ch_cookie, ch_store,
                   ch_reads, ch_frames, ch_check>>

\* The check of a handshake response against the stored cookie.
ChResponseCheck(cookie, response) ==
    IF cookie = NoCookie THEN "skipped"
    ELSE IF Verify(response.public, cookie, response.signature) THEN "passed"
    ELSE "failed"

\* recv_node_id_handshake, response branch: read the response, look the
\* cookie up, verify.
ChHsRecvResponse ==
    /\ engine = "channel"
    /\ ch_pc = "hs_recv_response"
    /\ ch_reads' = ch_reads + 1
    /\ \/ \E err \in RecvErrors \cup {"StateError"} :
            /\ ChReturn(err)
            /\ UNCHANGED <<ch_check, ch_cur, ch_reply, ch_response>>
       \/ \E response \in Responses :
            /\ ch_response' = response
            /\ ch_check' = ChResponseCheck(ch_store, response)
            /\ IF ch_check' = "failed"
               THEN /\ ChReturn("AuthenticationFailed")
                    /\ UNCHANGED <<ch_cur, ch_reply>>
               ELSE /\ ch_pc' = "recv_header"
                    /\ ch_last' = "Ok"
                    /\ ch_ret' = ch_ret
                    /\ ch_cur' = None
                    /\ ch_reply' = None
    /\ UNCHANGED <<cvars, xvars, engine, ch_header, ch_i, ch_cookie, ch_store,
                   ch_out, ch_frames, ch_replied>>

ChNext ==
    \/ ChSendHandshakeHeader
    \/ ChSetCookie
    \/ ChSendHandshakeQuery
    \/ ChSendTelemetryReq
    \/ ChRecvHeader
    \/ ChRecvKeepalive
    \/ ChRecvPublish
    \/ ChRecvConfirmReq
    \/ ChRecvConfirmAck
    \/ ChRecvTelemetryReq
    \/ ChHsRecvQuery
    \/ ChHsSendHeader
    \/ ChHsSendResponse
    \/ ChHsRecvResponse

\* ================================================================ Controller

\* Two nodes A and B, each with its own state. c1 is A's controller of its
\* connection to B, c2 is B's controller of the same connection.
Conns == {"c1", "c2"}
Nodes == {"A", "B"}
Addrs == {"addrA", "addrB"}
\* The engines in which Controllers run: "controller", two nodes with one
\* connection each, to each other; "shared", one node with two connections,
\* to two remote addresses, its two Controllers sharing the node's state.
CtrlEngines == {"controller", "shared"}
NodeOf(c)   == IF engine = "shared" \/ c = "c1" THEN "A" ELSE "B"
PeerAddr(c) == IF c = "c1" THEN "addrB" ELSE "addrA"
PeerConn(c) == IF c = "c1" THEN "c2" ELSE "c1"
NoOwner == "none"

\* The Handshake message handle_handshake takes: the decoded payload carries
\* a query and/or a response.
Handshake(query, response) == [query |-> query, response |-> response]
Queries == {NodeIdHandshakeQuery(k) : k \in Cookies}
\* What the decoder makes of a frame: a query iff the header has the query
\* bit, a response iff it has the response bit.
HandshakesFor(ext) ==
    [query : IF IsQuery(ext) THEN Queries ELSE {None},
     response : IF IsResponse(ext) THEN Responses ELSE {None}]
HandshakeHeaders == {HeaderNew(LocalNetwork, "NodeIdHandshake", ext) : ext \in Extensions}

\* The locals of the call in progress; they are gone when it returns.
NoLocals ==
    [header |-> None, handshake |-> None, should_respond |-> None, cookie |-> NoCookie]

CtrlInit ==
    /\ c_pc = [c \in Conns |-> "idle"]
    /\ c_op = [c \in Conns |-> "new"]
    /\ c_asked = [c \in Conns |-> NoCookie]
    /\ c_src = [c \in Conns |-> "wire"]
    /\ c_ret = [c \in Conns |-> "Ok"]
    /\ c_header = [c \in Conns |-> HeaderNew(LocalNetwork, "NodeIdHandshake", ExtensionsNew)]
    /\ c_local = [c \in Conns |-> NoLocals]
    /\ c_sent = [c \in Conns |-> <<>>]
    /\ c_check = [c \in Conns |-> "none"]
    /\ c_ops = 0
    /\ c_mine = [c \in Conns |-> NoCookie]
    /\ state = [n \in Nodes |-> [a \in Addrs |-> NoCookie]]
    /\ lock = [n \in Nodes |-> NoOwner]

\* The owner calls a method on an idle controller. The two nodes share
\* nothing but the frames they exchange, so their calls are taken one after
\* the other.
CtrlCall(c, op, asked, src) ==
    /\ engine \in CtrlEngines
    /\ c_pc[c] = "idle"
    /\ \A d \in Conns : NodeOf(d) # NodeOf(c) => c_pc[d] \in {"idle", "panicked"}
    /\ c_ops < MaxOps
    /\ c_ops' = c_ops + 1
    /\ c_op' = [c_op EXCEPT ![c] = op]
    /\ c_asked' = [c_asked EXCEPT ![c] = asked]
    /\ c_src' = [c_src EXCEPT ![c] = src]

\* The call returns r (or unwinds with a panic); its locals are dropped.
CtrlReturn(c, r) ==
    /\ c_pc' = [c_pc EXCEPT ![c] = IF r = "Panic" THEN "panicked" ELSE "idle"]
    /\ c_ret' = [c_ret EXCEPT ![c] = r]
    /\ c_local' = [c_local EXCEPT ![c] = NoLocals]

\* The call goes on to position `next` with locals l.
CtrlGoto(c, next, l) ==
    /\ c_pc' = [c_pc EXCEPT ![c] = next]
    /\ c_ret' = [c_ret EXCEPT ![c] = "pending"]
    /\ c_local' = [c_local EXCEPT ![c] = l]

\* self.send(item): written, and the call goes on to `next` (or returns Ok
\* when that was its last statement), or the error is returned.
CtrlSend(c, sent, item, next, result) ==
    IF result = "Ok"
    THEN /\ c_sent' = [c_sent EXCEPT ![c] = Append(sent, item)]
         /\ IF next = "return" THEN CtrlReturn(c, "Ok") ELSE CtrlGoto(c, next, c_local[c])
    ELSE /\ c_sent' = [c_sent EXCEPT ![c] = sent]
         /\ CtrlReturn(c, result)

\* As CtrlLock, with the lock taken whether or not it is held.
CtrlLock_NoExclusion(c, at, next, l) ==
    /\ engine \in CtrlEngines
    /\ c_pc[c] = at
    /\ lock' = [lock EXCEPT ![NodeOf(c)] = c]
    /\ CtrlGoto(c, next, l)

\* state.lock().await
CtrlLock(c, at, next, l) ==
    /\ engine \in CtrlEngines
    /\ c_pc[c] = at
    /\ lock[NodeOf(c)] = NoOwner
    /\ lock' = [lock EXCEPT ![NodeOf(c)] = c]
    /\ CtrlGoto(c, next, l)

\* ---- send_handshake

\* The call and send_header(MessageType::Handshake, query).
CtrlSendHandshake(c) ==
    /\ CtrlCall(c, "send_handshake", NoCookie, "wire")
    /\ \E result \in {"Ok"} \cup IoErrors :
          CtrlSend(c, <<>>, HeaderReset(c_header[c], "NodeIdHandshake", Query(ExtensionsNew)),
                   "sh_lock", result)
    /\ c_check' = [c_check EXCEPT ![c] = "none"]
    /\ UNCHANGED <<chvars, xvars, engine, c_mine, c_header, state, lock>>

\* Cookie::random() and state.lock().await
CtrlShLock(c) ==
    /\ \E cookie \in Cookies :
          CtrlLock(c, "sh_lock", "sh_set_cookie", [c_local[c] EXCEPT !.cookie = cookie])
    /\ UNCHANGED <<chvars, xvars, engine, c_mine, c_op, c_asked, c_src, c_header, c_sent, c_check, c_ops, state>>

\* As SetCookie, with a cookie already stored for the address kept.
SetCookie_KeepsFirst(store, socket_addr, cookie) ==
    IF store[socket_addr] = NoCookie THEN [store EXCEPT ![socket_addr] = cookie] ELSE store

\* As SetCookie, with the cookie stored for every address.
SetCookie_EveryAddress(store, socket_addr, cookie) ==
    [a \in DOMAIN store |-> cookie]

\* State::set_cookie: the address's cookie is replaced.
SetCookie(store, socket_addr, cookie) == [store EXCEPT ![socket_addr] = cookie]

\* State::cookie_for_socket_addr
CookieForSocketAddr(store, socket_addr) == store[socket_addr]

\* As CtrlShSetCookie, with the guard kept in a local that lives to the end of
\* send_handshake.
CtrlShSetCookie_GuardKept(c) ==
    /\ engine \in CtrlEngines
    /\ c_pc[c] = "sh_set_cookie"
    /\ lock' = lock
    /\ \/ /\ state' = [state EXCEPT
                         ![NodeOf(c)] = SetCookie(@, PeerAddr(c), c_local[c].cookie)]
          /\ c_mine' = [c_mine EXCEPT ![c] = c_local[c].cookie]
          /\ CtrlGoto(c, "sh_send_query", c_local[c])
       \/ /\ state' = state
          /\ c_mine' = c_mine
          /\ CtrlReturn(c, "StateError")
    /\ UNCHANGED <<chvars, xvars, engine, c_op, c_asked, c_src, c_header, c_sent, c_check, c_ops>>

\* .set_cookie(self.peer_addr, cookie.clone()).await?  The guard is dropped
\* at the end of the statement.
CtrlShSetCookie(c) ==
    /\ engine \in CtrlEngines
    /\ c_pc[c] = "sh_set_cookie"
    /\ lock' = [lock EXCEPT ![NodeOf(c)] = NoOwner]
    /\ \/ /\ state' = [state EXCEPT
                         ![NodeOf(c)] = SetCookie(@, PeerAddr(c), c_local[c].cookie)]
          /\ c_mine' = [c_mine EXCEPT ![c] = c_local[c].cookie]
          /\ CtrlGoto(c, "sh_send_query", c_local[c])
       \/ /\ state' = state
          /\ c_mine' = c_mine
          /\ CtrlReturn(c, "StateError")
    /\ UNCHANGED <<chvars, xvars, engine, c_op, c_asked, c_src, c_header, c_sent, c_check, c_ops>>

\* As CtrlShSendQuery, with a second random cookie put in the query.
CtrlShSendQuery_OtherCookie(c) ==
    /\ engine \in CtrlEngines
    /\ c_pc[c] = "sh_send_query"
    /\ \E result \in {"Ok"} \cup IoErrors, cookie \in Cookies :
          CtrlSend(c, c_sent[c], NodeIdHandshakeQuery(cookie), "return", result)
    /\ UNCHANGED <<chvars, xvars, engine, c_mine, c_op, c_asked, c_src, c_header, c_check, c_ops, state, lock>>

\* self.send(&HandshakeQuery::new(cookie))
CtrlShSendQuery(c) ==
    /\ engine \in CtrlEngines
    /\ c_pc[c] = "sh_send_query"
    /\ \E result \in {"Ok"} \cup IoErrors :
          CtrlSend(c, c_sent[c], NodeIdHandshakeQuery(c_local[c].cookie), "return", result)
    /\ UNCHANGED <<chvars, xvars, engine, c_mine, c_op, c_asked, c_src, c_header, c_check, c_ops, state, lock>>

\* ---- handle_handshake

\* The query branch: sign the query's cookie with a key derived from a fresh
\* random seed; the reply is kept in should_respond.
CtrlShouldRespond(seed, query) ==
    NodeIdHandshakeResponse(ToPublic(seed), Sign(seed, query.cookie))

\* Where handle_handshake stands when it first suspends or returns: the
\* `expect`s, the query branch, and the way to the response branch.
CtrlHandshakeEntry(header, handshake, seed) ==
    LET isq == IsQuery(header.ext)
        isr == IsResponse(header.ext)
        respond == IF isq /\ handshake.query # None
                   THEN CtrlShouldRespond(seed, handshake.query) ELSE None
    IN  IF isq /\ handshake.query = None
        THEN [pc |-> "return", ret |-> "Panic", respond |-> None]
        ELSE IF isq /\ ~Verify(respond.public, handshake.query.cookie, respond.signature)
        THEN [pc |-> "return", ret |-> "AuthenticationFailed", respond |-> None]
        ELSE IF isr /\ handshake.response = None
        THEN [pc |-> "return", ret |-> "Panic", respond |-> respond]
        ELSE IF isr
        THEN [pc |-> "hh_lock", ret |-> "pending", respond |-> respond]
        ELSE IF respond # None
        THEN [pc |-> "hh_send_header", ret |-> "pending", respond |-> respond]
        ELSE [pc |-> "return", ret |-> "Ok", respond |-> respond]

\* The call of handle_handshake(header, handshake), up to its first await.
CtrlHandleHandshake(c, header, handshake, src) ==
    /\ CtrlCall(c, "handle_handshake",
                IF handshake.query = None THEN NoCookie ELSE handshake.query.cookie, src)
    /\ \E seed \in Seeds :
          LET e == CtrlHandshakeEntry(header, handshake, seed) IN
          IF e.pc = "return"
          THEN CtrlReturn(c, e.ret)
          ELSE CtrlGoto(c, e.pc, [header |-> header, handshake |-> handshake,
                                  should_respond |-> e.respond, cookie |-> NoCookie])
    /\ c_sent' = [c_sent EXCEPT ![c] = <<>>]
    /\ c_check' = [c_check EXCEPT ![c] = "none"]
    /\ UNCHANGED <<chvars, xvars, engine, c_mine, c_header, state, lock>>

\* A handshake frame of any content reaches the controller.
CtrlRecvHandshake(c) ==
    \E header \in HandshakeHeaders : \E handshake \in HandshakesFor(header.ext) :
        CtrlHandleHandshake(c, header, handshake, "wire")

\* The frame the peer's controller wrote in its last call (a header and its
\* payload) reaches the controller.
CtrlRecvFromPeer(c) ==
    LET p == PeerConn(c) IN
    /\ c_pc[p] = "idle"
    /\ c_ret[p] = "Ok"
    /\ Len(c_sent[p]) = 2
    /\ CtrlHandleHandshake(c, c_sent[p][1],
          Handshake(IF c_sent[p][2].kind = "query" THEN c_sent[p][2] ELSE None,
                    IF c_sent[p][2].kind = "response" THEN c_sent[p][2] ELSE None),
          "peer")

\* The response branch awaits the state's lock.
CtrlHhLock(c) ==
    /\ CtrlLock(c, "hh_lock", "hh_lookup", c_local[c])
    /\ UNCHANGED <<chvars, xvars, engine, c_mine, c_op, c_asked, c_src, c_header, c_sent, c_check, c_ops, state>>

\* As CtrlResponseCheck, with the verification left out.
CtrlResponseCheck_Unverified(cookie, response) ==
    IF cookie = NoCookie THEN "skipped" ELSE "passed"

\* As CtrlResponseCheck, with the verification's result inverted.
CtrlResponseCheck_Inverted(cookie, response) ==
    IF cookie = NoCookie THEN "skipped"
    ELSE IF Verify(response.public, cookie, response.signature) THEN "failed"
    ELSE "passed"

\* The check of a handshake response against the stored cookie.
CtrlResponseCheck(cookie, response) ==
    IF cookie = NoCookie THEN "skipped"
    ELSE IF Verify(response.public, cookie, response.signature) THEN "passed"
    ELSE "failed"

\* As CtrlAfterCheck, with a missing cookie treated as a failed handshake.
CtrlAfterCheck_MissingIsFatal(check, respond) ==
    CASE check \in {"skipped", "failed"} -> [pc |-> "return", ret |-> "AuthenticationFailed"]
      [] OTHER -> IF respond # None THEN [pc |-> "hh_send_header", ret |-> "pending"]
                  ELSE [pc |-> "return", ret |-> "Ok"]

\* What handle_handshake does after the check: return early, fail, or go on
\* to the reply.
CtrlAfterCheck(check, respond) ==
    CASE check = "skipped" -> [pc |-> "return", ret |-> "Ok"]
      [] check = "failed"  -> [pc |-> "return", ret |-> "AuthenticationFailed"]
      [] OTHER -> IF respond # None THEN [pc |-> "hh_send_header", ret |-> "pending"]
                  ELSE [pc |-> "return", ret |-> "Ok"]

\* As CtrlHhLookup, with the cookie taken out of the store by the lookup.
CtrlHhLookup_Consumes(c) ==
    /\ engine \in CtrlEngines
    /\ c_pc[c] = "hh_lookup"
    /\ lock' = [lock EXCEPT ![NodeOf(c)] = NoOwner]
    /\ state' = [state EXCEPT ![NodeOf(c)] = SetCookie(@, PeerAddr(c), NoCookie)]
    /\ \/ /\ CtrlReturn(c, "StateError")
          /\ c_check' = c_check
       \/ LET check == CtrlResponseCheck(
                          CookieForSocketAddr(state[NodeOf(c)], PeerAddr(c)),
                          c_local[c].handshake.response)
              a == CtrlAfterCheck(check, c_local[c].should_respond)
          IN  /\ c_check' = [c_check EXCEPT ![c] = check]
              /\ IF a.pc = "return"
                 THEN CtrlReturn(c, a.ret)
                 ELSE CtrlGoto(c, a.pc, c_local[c])
    /\ UNCHANGED <<chvars, xvars, engine, c_mine, c_op, c_asked, c_src, c_header, c_sent, c_ops>>

\* .cookie_for_socket_addr(&self.peer_addr).await?, the None case and the
\* verification. The guard is dropped at the end of the `let`.
CtrlHhLookup(c) ==
    /\ engine \in CtrlEngines
    /\ c_pc[c] = "hh_lookup"
    /\ lock' = [lock EXCEPT ![NodeOf(c)] = NoOwner]
    /\ \/ /\ CtrlReturn(c, "StateError")
          /\ c_check' = c_check
       \/ LET check == CtrlResponseCheck(
                          CookieForSocketAddr(state[NodeOf(c)], PeerAddr(c)),
                          c_local[c].handshake.response)
              a == CtrlAfterCheck(check, c_local[c].should_respond)
          IN  /\ c_check' = [c_check EXCEPT ![c] = check]
              /\ IF a.pc = "return"
                 THEN CtrlReturn(c, a.ret)
                 ELSE CtrlGoto(c, a.pc, c_local[c])
    /\ UNCHANGED <<chvars, xvars, engine, c_mine, c_op, c_asked, c_src, c_header, c_sent, c_ops, state>>

\* The reply's header: a copy of self.header, reset to a response.
CtrlHhSendHeader(c) ==
    /\ engine \in CtrlEngines
    /\ c_pc[c] = "hh_send_header"
    /\ \E result \in {"Ok"} \cup IoErrors :
          CtrlSend(c, c_sent[c],
                   HeaderReset(c_header[c], "NodeIdHandshake", Response(ExtensionsNew)),
                   "hh_send_response", result)
    /\ UNCHANGED <<chvars, xvars, engine, c_mine, c_op, c_asked, c_src, c_header, c_check, c_ops, state, lock>>

\* As CtrlHhSendResponse, with the reply signed again over some cookie.
CtrlHhSendResponse_Resigned(c) ==
    /\ engine \in CtrlEngines
    /\ c_pc[c] = "hh_send_response"
    /\ \E result \in {"Ok"} \cup IoErrors, seed \in Seeds, cookie \in Cookies :
          CtrlSend(c, c_sent[c], CtrlShouldRespond(seed, NodeIdHandshakeQuery(cookie)),
                   "return", result)
    /\ UNCHANGED <<chvars, xvars, engine, c_mine, c_op, c_asked, c_src, c_header, c_check, c_ops, state, lock>>

\* The reply's payload, HandshakeResponse::new(public, signature).
CtrlHhSendResponse(c) ==
    /\ engine \in CtrlEngines
    /\ c_pc[c] = "hh_send_response"
    /\ \E result \in {"Ok"} \cup IoErrors :
          CtrlSend(c, c_sent[c], c_local[c].should_respond, "return", result)
    /\ UNCHANGED <<chvars, xvars, engine, c_mine, c_op, c_asked, c_src, c_header, c_check, c_ops, state, lock>>

\* ---- the handlers that print their message and return Ok(())
CtrlHandleOnly(c, op) ==
    /\ CtrlCall(c, op, NoCookie, "wire")
    /\ CtrlReturn(c, "Ok")
    /\ c_sent' = [c_sent EXCEPT ![c] = <<>>]
    /\ c_check' = [c_check EXCEPT ![c] = "none"]
    /\ UNCHANGED <<chvars, xvars, engine, c_mine, c_header, state, lock>>

CtrlHandleKeepalive(c)    == CtrlHandleOnly(c, "handle_keepalive")
CtrlHandleTelemetryAck(c) == CtrlHandleOnly(c, "handle_telemetry_ack")
CtrlHandlePublish(c)      == CtrlHandleOnly(c, "handle_publish")

CtrlNext ==
    \E c \in Conns :
        \/ CtrlSendHandshake(c)
        \/ CtrlShLock(c)
        \/ CtrlShSetCookie(c)
        \/ CtrlShSendQuery(c)
        \/ CtrlRecvHandshake(c)
        \/ CtrlRecvFromPeer(c)
        \/ CtrlHhLock(c)
        \/ CtrlHhLookup(c)
        \/ CtrlHhSendHeader(c)
        \/ CtrlHhSendResponse(c)
        \/ CtrlHandleKeepalive(c)
        \/ CtrlHandleTelemetryAck(c)
        \/ CtrlHandlePublish(c)

\* A handshake response of any content reaches the controller.
CtrlRecvResponse(c) ==
    LET header == HeaderNew(LocalNetwork, "NodeIdHandshake", Response(ExtensionsNew))
    IN  \E handshake \in HandshakesFor(header.ext) :
            CtrlHandleHandshake(c, header, handshake, "wire")

\* Two connection tasks of one node, each with its own Controller: each sends
\* its handshake and handles the responses that come in.
SharedNext ==
    \E c \in Conns :
        \/ CtrlSendHandshake(c)
        \/ CtrlShLock(c)
        \/ CtrlShSetCookie(c)
        \/ CtrlShSendQuery(c)
        \/ CtrlRecvResponse(c)
        \/ CtrlHhLock(c)
        \/ CtrlHhLookup(c)

\* ========================================================= Keepalive on the wire

\* A byte string, as far as Keepalive::deserialize can tell its bytes apart:
\* complete slots of Peer::LEN bytes each (0: the all-zero slot, p > 0: the
\* bytes of peer p) followed by `trailing` more bytes, fewer than Peer::LEN.
ZeroSlot == 0
Peers    == 1..MaxPeer
Slots    == {ZeroSlot} \cup Peers
RECURSIVE SeqsUpTo(_, _)
SeqsUpTo(S, n) ==
    IF n = 0 THEN {<<>>}
    ELSE LET shorter == SeqsUpTo(S, n - 1)
         IN  shorter \cup {Append(q, x) : q \in {r \in shorter : Len(r) = n - 1}, x \in S}
Datas == [slots : SeqsUpTo(Slots, KeepalivePeers), trailing : 0..MaxTrailing]

\* A length in bytes: `peers` times Peer::LEN plus `bytes` (fewer than Peer::LEN).
DataLen(data) == [peers |-> Len(data.slots), bytes |-> data.trailing]

\* Keepalive::len: Peer::LEN * Keepalive::PEERS, whatever the header.
KeepaliveLen(header) == [peers |-> KeepalivePeers, bytes |-> 0]

Ok(value)  == [kind |-> "Ok", value |-> value]
Err(error) == [kind |-> "Err", error |-> error]
Panic      == [kind |-> "Panic"]

\* Bytes::slice(Peer::LEN): the next Peer::LEN bytes, or an error when fewer
\* remain.
BytesSlice(slots) == IF Len(slots) > 0 THEN Ok(Head(slots)) ELSE Err("FramingError")

\* Peer::deserialize of a slot of Peer::LEN bytes: an address and a port.
PeerDeserialize(header, slice) == Ok([peer |-> slice])

\* As KeepaliveDeserializeFrom, with the decoding stopped at the first
\* all-zero slot.
RECURSIVE KeepaliveDeserializeFrom_StopsAtZero(_, _, _, _)
KeepaliveDeserializeFrom_StopsAtZero(header, i, slots, s) ==
    IF i = KeepalivePeers THEN Ok(s)
    ELSE LET slice == BytesSlice(slots) IN
         IF slice.kind = "Err" THEN slice
         ELSE IF slice.value = ZeroSlot THEN Ok(s)
         ELSE LET peer == PeerDeserialize(header, slice.value) IN
              IF peer.kind = "Err" THEN peer
              ELSE KeepaliveDeserializeFrom_StopsAtZero(header, i + 1, Tail(slots),
                                                        Append(s, peer.value))

\* The loop of Keepalive::deserialize from its i-th turn, with `slots` left
\* in `bytes` and the peers s pushed so far.
RECURSIVE KeepaliveDeserializeFrom(_, _, _, _)
KeepaliveDeserializeFrom(header, i, slots, s) ==
    IF i = KeepalivePeers THEN Ok(s)
    ELSE LET slice == BytesSlice(slots) IN
         IF slice.kind = "Err" THEN slice
         ELSE IF slice.value = ZeroSlot
         THEN KeepaliveDeserializeFrom(header, i + 1, Tail(slots), s)
         ELSE LET peer == PeerDeserialize(header, slice.value) IN
              IF peer.kind = "Err" THEN peer
              ELSE KeepaliveDeserializeFrom(header, i + 1, Tail(slots),
                                            Append(s, peer.value))

KeepaliveDeserialize(header, data) ==
    KeepaliveDeserializeFrom(header, 0, data.slots, <<>>)

\* Keepalive::serialize: unimplemented!()
KeepaliveSerialize(keepalive) == Panic

KOff ==
    /\ k_data = None
    /\ k_pc = "off"
    /\ k_result = None
    /\ k_bytes = None

KInit ==
    /\ k_data \in Datas
    /\ k_pc = "input"
    /\ k_result = None
    /\ k_bytes = None

\* Keepalive::deserialize(header, data)
KDeserialize ==
    /\ engine = "wire"
    /\ k_pc = "input"
    /\ \E header \in {None, HeaderNew(LocalNetwork, "Keepalive", ExtensionsNew)} :
          k_result' = KeepaliveDeserialize(header, k_data)
    /\ k_pc' = "deserialized"
    /\ UNCHANGED <<chvars, cvars, svars, bvars, wvars, uvars, engine, k_data, k_bytes>>

\* serialize() of the Keepalive that deserialize returned
KSerialize ==
    /\ engine = "wire"
    /\ k_pc = "deserialized"
    /\ k_result.kind = "Ok"
    /\ k_bytes' = KeepaliveSerialize(k_result.value)
    /\ k_pc' = "serialized"
    /\ UNCHANGED <<chvars, cvars, svars, bvars, wvars, uvars, engine, k_data, k_result>>

WireNext ==
    \/ KDeserialize
    \/ KSerialize

\* ============================================================ the State object

BlockHashes == {"hash1", "hash2"}
Accounts    == Publics
NoLedger ==
    [blocks   |-> [h \in BlockHashes |-> None],
     latest   |-> [a \in Accounts |-> None],
     accounts |-> [h \in BlockHashes |-> None]]

\* State::add_block(account, full_block): the block is kept under its hash,
\* it becomes the account's latest block and its hash maps to the account.
AddBlock(ledger, account, hash) ==
    [blocks   |-> [ledger.blocks EXCEPT ![hash] = [hash |-> hash]],
     latest   |-> [ledger.latest EXCEPT ![account] = hash],
     accounts |-> [ledger.accounts EXCEPT ![hash] = account]]

SOff ==
    /\ s_cookies = None
    /\ s_ledger = None
    /\ s_op = None
    /\ s_last = None
    /\ s_sets = None
    /\ s_calls = 0

\* The State object behind a Channel or a Controller: its ledger, empty when
\* the node starts (its cookies are ch_store and state).
SNode ==
    /\ s_cookies = None
    /\ s_ledger = NoLedger
    /\ s_op = None
    /\ s_last = None
    /\ s_sets = None
    /\ s_calls = 0

SInit ==
    /\ s_cookies = [a \in Addrs |-> NoCookie]
    /\ s_ledger = NoLedger
    /\ s_op = None
    /\ s_last = [a \in Addrs |-> NoCookie]
    /\ s_sets = [a \in Addrs |-> 0]
    /\ s_calls = 0

\* A call on the State object.
StCall(op, ret) ==
    /\ engine = "state"
    /\ s_calls < MaxOps + 1
    /\ s_calls' = s_calls + 1
    /\ s_op' = [op |-> op, ret |-> ret]

\* set_cookie(socket_addr, cookie): Ok(()), or an error of the backend.
StSetCookie ==
    /\ \E socket_addr \in Addrs, cookie \in Cookies :
          \/ /\ StCall([name |-> "set_cookie", socket_addr |-> socket_addr,
                        cookie |-> cookie], Ok(None))
             /\ s_cookies' = SetCookie(s_cookies, socket_addr, cookie)
             /\ s_last' = [s_last EXCEPT ![socket_addr] = cookie]
             /\ s_sets' = [s_sets EXCEPT ![socket_addr] = @ + 1]
          \/ /\ StCall([name |-> "set_cookie", socket_addr |-> socket_addr,
                        cookie |-> cookie], Err("StateError"))
             /\ UNCHANGED <<s_cookies, s_last, s_sets>>
    /\ UNCHANGED <<chvars, cvars, kvars, bvars, wvars, uvars, engine, s_ledger>>

\* cookie_for_socket_addr(socket_addr): Ok(Some(cookie)) or Ok(None), or an
\* error of the backend.
StCookieForSocketAddr ==
    /\ \E socket_addr \in Addrs :
          \/ StCall([name |-> "cookie_for_socket_addr", socket_addr |-> socket_addr],
                    Ok(CookieForSocketAddr(s_cookies, socket_addr)))
          \/ StCall([name |-> "cookie_for_socket_addr", socket_addr |-> socket_addr],
                    Err("StateError"))
    /\ UNCHANGED <<chvars, cvars, kvars, bvars, wvars, uvars, engine, s_cookies, s_ledger, s_last, s_sets>>

\* add_block(account, full_block)
StAddBlock ==
    /\ \E account \in Accounts, hash \in BlockHashes :
          /\ StCall([name |-> "add_block", account |-> account, hash |-> hash], Ok(None))
          /\ s_ledger' = AddBlock(s_ledger, account, hash)
    /\ UNCHANGED <<chvars, cvars, kvars, bvars, wvars, uvars, engine, s_cookies, s_last, s_sets>>

StateNext ==
    \/ StSetCookie
    \/ StCookieForSocketAddr
    \/ StAddBlock

\* ============================================================ Channel::recv
\* T::len(header) for the message types and headers the callers pass.
RecvLens == 0..MaxLen
LenResults == {Ok(n) : n \in RecvLens} \cup {Err("MalformedHeader")}

Max(a, b) == IF a > b THEN a ELSE b
Min(a, b) == IF a < b THEN a ELSE b

\* if expected_len > self.buffer.len() { self.buffer.resize(expected_len, 0) }
RecvBufferLen_Exact(len, expected_len) == expected_len

RecvBufferLen(len, expected_len) ==
    IF expected_len > len THEN expected_len ELSE len

\* self.stream.read_exact(buffer): all of the buffer, or an error when the
\* stream ends first.
ReadExact(stream, n) ==
    IF stream >= n THEN Ok(n) ELSE Err("TransportError")

\* expect_len(bytes_read, expected_len, "Recv packet")
ExpectLen(actual, expected) ==
    IF actual = expected THEN Ok(actual) ELSE Err("FramingError")

BOff ==
    /\ b_buf = 0
    /\ b_stream = 0
    /\ b_pc = "off"
    /\ b_want = 0
    /\ b_read = 0
    /\ b_ret = None
    /\ b_max = 0
    /\ b_calls = 0

\* Channel::new: buffer: Vec::with_capacity(1024), of length 0.
BInit ==
    /\ b_buf = 0
    /\ b_stream \in 0..MaxStream
    /\ b_pc = "idle"
    /\ b_want = 0
    /\ b_read = 0
    /\ b_ret = None
    /\ b_max = 0
    /\ b_calls = 0

\* recv::<T>(header), up to the slice of the buffer: T::len(header)? and the
\* resize of the buffer.
RecvCall ==
    /\ engine = "recv"
    /\ b_pc = "idle"
    /\ b_calls < MaxOps + 1
    /\ b_calls' = b_calls + 1
    /\ \E len \in LenResults :
          IF len.kind = "Err"
          THEN /\ b_ret' = len
               /\ UNCHANGED <<b_buf, b_pc, b_want, b_max>>
          ELSE /\ b_want' = len.value
               /\ b_max' = Max(b_max, len.value)
               /\ b_buf' = RecvBufferLen(b_buf, len.value)
               /\ b_pc' = "read"
               /\ b_ret' = None
    /\ UNCHANGED <<chvars, cvars, kvars, svars, wvars, uvars, engine, b_stream, b_read>>

\* self.stream.read_exact(&mut self.buffer[0..expected_len]).await? and
\* expect_len(bytes_read, expected_len, ..)?
RecvRead ==
    /\ engine = "recv"
    /\ b_pc = "read"
    /\ \/ LET bytes_read == ReadExact(b_stream, b_want)
          IN  IF bytes_read.kind = "Err"
              THEN /\ b_ret' = bytes_read
                   /\ b_stream' = 0
                   /\ b_pc' = "idle"
                   /\ UNCHANGED b_read
              ELSE /\ b_read' = bytes_read.value
                   /\ b_stream' = b_stream - bytes_read.value
                   /\ LET checked == ExpectLen(bytes_read.value, b_want)
                      IN  IF checked.kind = "Err"
                          THEN b_ret' = checked /\ b_pc' = "idle"
                          ELSE b_ret' = None /\ b_pc' = "decode"
       \* the transport fails for another reason, part of the bytes consumed
       \/ \E k \in 0..Min(b_stream, b_want) :
              /\ b_ret' = Err("TransportError")
              /\ b_stream' = b_stream - k
              /\ b_pc' = "idle"
              /\ UNCHANGED b_read
    /\ UNCHANGED <<chvars, cvars, kvars, svars, wvars, uvars, engine, b_buf, b_want, b_max, b_calls>>

\* T::deserialize(header, &self.buffer[0..expected_len])? and Ok(result)
RecvDecode ==
    /\ engine = "recv"
    /\ b_pc = "decode"
    /\ b_ret' \in {Ok([decoded |-> b_want]), Err("DecodeError")}
    /\ b_pc' = "idle"
    /\ UNCHANGED <<chvars, cvars, kvars, svars, wvars, uvars, engine, b_buf, b_stream, b_want, b_read,
                   b_max, b_calls>>

RecvNext ==
    \/ RecvCall
    \/ RecvRead
    \/ RecvDecode

\* ============================================================ WalletManager
Tasks   == {"t1", "t2"}
Refs    == 1..MaxRef
Wallets == 1..MaxWallet
NoWallet == 0

\* WalletStorage { wallets: HashMap<WalletId, Wallet> }
Storages == [Refs -> {NoWallet} \cup Wallets]
WalletStorageNew == [r \in Refs |-> NoWallet]
ContainsKey(storage, reference) == storage[reference] # NoWallet
Insert(storage, reference, wallet) == [storage EXCEPT ![reference] = wallet]
Remove(storage, reference) == [storage EXCEPT ![reference] = NoWallet]

\* The file: absent, the JSON of a storage, or bytes that are not the JSON of
\* a storage (the empty file File::create leaves, a partly written one).
FileMissing == [kind |-> "missing"]
FileBroken  == [kind |-> "broken"]
FileOf(storage) == [kind |-> "storage", wallets |-> storage]

\* load_unlocked: File::open(..).unwrap() and serde_json::from_reader(..)?
LoadUnlocked(file) ==
    CASE file.kind = "missing" -> Panic
      [] file.kind = "broken"  -> Err("ParseError")
      [] OTHER                 -> Ok(file.wallets)

\* add, between the load and the write: the check and the insert.
AddInsert_Replaces(storage, reference, wallet) ==
    Ok(Insert(storage, reference, wallet))

AddInsert(storage, reference, wallet) ==
    IF ContainsKey(storage, reference)
    THEN Err("AlreadyExists")
    ELSE Ok(Insert(storage, reference, wallet))

\* delete, between the load and the write: the check and the remove.
DeleteRemove_Clears(storage, reference) ==
    IF ~ContainsKey(storage, reference)
    THEN Err("DoesNotExist")
    ELSE Ok(WalletStorageNew)

DeleteRemove(storage, reference) ==
    IF ~ContainsKey(storage, reference)
    THEN Err("DoesNotExist")
    ELSE Ok(Remove(storage, reference))

\* As Get, returning the wallet of the lowest reference stored.
Get_Lowest(storage, reference) ==
    IF ContainsKey(storage, reference)
    THEN Ok(storage[CHOOSE r \in Refs : ContainsKey(storage, r)
                       /\ \A q \in Refs : ContainsKey(storage, q) => r <= q])
    ELSE Err("NotFound")

\* wallet(reference, None), after the load: store.wallets.get(reference)
Get(storage, reference) ==
    IF ContainsKey(storage, reference)
    THEN Ok(storage[reference])
    ELSE Err("NotFound")

WOff ==
    /\ w_file = None
    /\ w_pc = None
    /\ w_op = None
    /\ w_store = None
    /\ w_ret = None
    /\ w_before = None
    /\ w_gone = {}
    /\ w_have = None
    /\ w_calls = 0

\* WalletManager::new(path): the file is not there, or holds the storage an
\* earlier run left.
WInit ==
    /\ w_file \in {FileMissing} \cup {FileOf(storage) : storage \in Storages}
    /\ w_pc = [t \in Tasks |-> "idle"]
    /\ w_op = [t \in Tasks |-> None]
    /\ w_store = [t \in Tasks |-> None]
    /\ w_ret = [t \in Tasks |-> None]
    /\ w_before = [t \in Tasks |-> None]
    /\ w_gone = {}
    /\ w_have = [r \in Refs |-> NoWallet]
    /\ w_calls = 0

\* The engines in which a WalletManager runs.  In the "wallet" scenario the
\* calls on the manager come one after the other, from one task; in the
\* "wallet_race" scenario two tasks call add on the same file, their steps
\* interleaved.
WalletEngines == {"wallet", "wallet_race"}
Callers == IF engine = "wallet" THEN {"t1"} ELSE Tasks

\* Task t calls a method of the manager.
WCall(t, op) ==
    /\ engine \in WalletEngines
    /\ t \in Callers
    /\ w_pc[t] = "idle"
    /\ w_calls < MaxOps
    /\ w_calls' = w_calls + 1
    /\ w_op' = [w_op EXCEPT ![t] = [n |-> w_calls + 1] @@ op]
    /\ w_before' = [w_before EXCEPT ![t] = w_file]

\* The call of task t returns r (or unwinds with a panic).
WReturn(t, r) ==
    /\ w_pc' = [w_pc EXCEPT ![t] = IF r = Panic THEN "panicked" ELSE "idle"]
    /\ w_ret' = [w_ret EXCEPT ![t] = r]
    /\ w_store' = [w_store EXCEPT ![t] = None]

\* The call of task t goes on to `next` with the local storage.
WGoto(t, next, storage) ==
    /\ w_pc' = [w_pc EXCEPT ![t] = next]
    /\ w_ret' = [w_ret EXCEPT ![t] = None]
    /\ w_store' = [w_store EXCEPT ![t] = storage]

WOthers == <<chvars, cvars, kvars, svars, bvars, uvars, engine>>

\* ensure(): Ok if the file exists, else it is created and an empty storage
\* written to it.
WEnsure(t) ==
    /\ WCall(t, [op |-> "ensure"])
    /\ IF w_file.kind # "missing"
       THEN WReturn(t, Ok("unit")) /\ UNCHANGED w_file
       ELSE \/ WReturn(t, Err("IoError")) /\ UNCHANGED w_file
            \/ WReturn(t, Err("IoError")) /\ w_file' = FileBroken
            \/ WReturn(t, Ok("unit")) /\ w_file' = FileOf(WalletStorageNew)
    /\ UNCHANGED <<WOthers, w_gone, w_have>>

\* wallet(reference, None)
WWallet(t) ==
    \E reference \in Refs :
        /\ WCall(t, [op |-> "wallet", reference |-> reference])
        /\ LET store == LoadUnlocked(w_file)
           IN  IF store.kind = "Ok"
               THEN WReturn(t, Get(store.value, reference))
               ELSE WReturn(t, store)
        /\ UNCHANGED <<WOthers, w_file, w_gone, w_have>>

\* add(reference, wallet) and delete(reference) are called.
WAdd(t) ==
    \E reference \in Refs, wallet \in Wallets :
        /\ WCall(t, [op |-> "add", reference |-> reference, wallet |-> wallet])
        /\ WGoto(t, "add_load", None)
        /\ UNCHANGED <<WOthers, w_file, w_gone, w_have>>

WDelete(t) ==
    \E reference \in Refs :
        /\ WCall(t, [op |-> "delete", reference |-> reference])
        /\ WGoto(t, "delete_load", None)
        /\ UNCHANGED <<WOthers, w_file, w_gone, w_have>>

\* let mut storage = self.load_unlocked().await?; the check; the insert
WAddLoad(t) ==
    /\ engine \in WalletEngines
    /\ w_pc[t] = "add_load"
    /\ LET storage == LoadUnlocked(w_file)
           changed == AddInsert(storage.value, w_op[t].reference, w_op[t].wallet)
       IN  IF storage.kind # "Ok"
           THEN WReturn(t, storage)
           ELSE IF changed.kind = "Err"
                THEN WReturn(t, changed)
                ELSE WGoto(t, "create", changed.value)
    /\ UNCHANGED <<WOthers, w_file, w_op, w_before, w_gone, w_have, w_calls>>

\* let mut storage = self.load_unlocked().await?; the check; the remove
WDeleteLoad(t) ==
    /\ engine \in WalletEngines
    /\ w_pc[t] = "delete_load"
    /\ LET storage == LoadUnlocked(w_file)
           changed == DeleteRemove(storage.value, w_op[t].reference)
       IN  IF storage.kind # "Ok"
           THEN WReturn(t, storage)
           ELSE IF changed.kind = "Err"
                THEN WReturn(t, changed)
                ELSE WGoto(t, "create", changed.value)
    /\ UNCHANGED <<WOthers, w_file, w_op, w_before, w_gone, w_have, w_calls>>

\* File::create(&self.path).await?: the file is truncated, or the call fails.
WCreate(t) ==
    /\ engine \in WalletEngines
    /\ w_pc[t] = "create"
    /\ \/ WReturn(t, Err("IoError")) /\ UNCHANGED w_file
       \/ WGoto(t, "save", w_store[t]) /\ w_file' = FileBroken
    /\ UNCHANGED <<WOthers, w_op, w_before, w_gone, w_have, w_calls>>

\* self.save_unlocked(file, storage).await?; Ok(())
WSave(t) ==
    /\ engine \in WalletEngines
    /\ w_pc[t] = "save"
    /\ \/ /\ WReturn(t, Err("IoError"))
          /\ w_file' = FileBroken
          /\ UNCHANGED <<w_gone, w_have>>
       \/ /\ WReturn(t, Ok("unit"))
          /\ w_file' = FileOf(w_store[t])
          /\ w_gone' = IF w_op[t].op = "delete"
                       THEN w_gone \cup {w_op[t].reference}
                       ELSE w_gone \ {w_op[t].reference}
          /\ w_have' = [w_have EXCEPT ![w_op[t].reference] =
                           IF w_op[t].op = "delete" THEN NoWallet ELSE w_op[t].wallet]
    /\ UNCHANGED <<WOthers, w_op, w_before, w_calls>>

WalletNext ==
    \E t \in Callers :
        \/ WEnsure(t)
        \/ WWallet(t)
        \/ WAdd(t)
        \/ WDelete(t)
        \/ WAddLoad(t)
        \/ WDeleteLoad(t)
        \/ WCreate(t)
        \/ WSave(t)

\* Task t makes its one add call.
WRaceAdd(t) ==
    /\ w_op[t] = None
    /\ WAdd(t)

\* Two tasks, each with one add call on the one file.
WalletRaceNext ==
    \E t \in Tasks :
        \/ WRaceAdd(t)
        \/ WAddLoad(t)
        \/ WCreate(t)
        \/ WSave(t)

\* ==================================================================== units
\* A BigDecimal: sign, decimal digits without leading or trailing zeros, and
\* the power of ten they are multiplied by; zero has no digits.  Equal
\* amounts have equal records, as BigDecimal's == compares amounts.
Zero == [neg |-> FALSE, digits |-> <<>>, exp |-> 0]
Decimal(neg, digits, exp) ==
    IF digits = <<>> THEN Zero ELSE [neg |-> neg, digits |-> digits, exp |-> exp]

\* u128::MAX, 340282366920938463463374607431768211455, and the amount after it
U128MaxDigits ==
    <<3,4,0,2,8,2,3,6,6,9,2,0,9,3,8,4,6,3,4,6,3,3,7,4,6,0,7,4,3,1,7,6,8,2,1,1,4,5,5>>
U128OverDigits ==
    <<3,4,0,2,8,2,3,6,6,9,2,0,9,3,8,4,6,3,4,6,3,3,7,4,6,0,7,4,3,1,7,6,8,2,1,1,4,5,6>>

\* The digits of the amounts tried: 0, 1, 5, 340282366920938 and the next one,
\* 3402823669209384 and the next one, u128::MAX and the next one.
Mantissas ==
    {<<>>, <<1>>, <<5>>,
     <<3,4,0,2,8,2,3,6,6,9,2,0,9,3,8>>, <<3,4,0,2,8,2,3,6,6,9,2,0,9,3,9>>,
     <<3,4,0,2,8,2,3,6,6,9,2,0,9,3,8,4>>, <<3,4,0,2,8,2,3,6,6,9,2,0,9,3,8,5>>,
     U128MaxDigits, U128OverDigits}
Exps == {0, 2, 0 - 1, 0 - 24, 0 - 28, 0 - 30}
Decimals == {Decimal(neg, digits, exp) : neg \in BOOLEAN, digits \in Mantissas, exp \in Exps}

Units == {"Nano", "Cents", "MicroNano", "UnboundedRai"}

\* unit!(Nano, 30); unit!(Cents, 28); unit!(MicroNano, 24); unit!(UnboundedRai, 0)
Multiplier_Doc(unit) ==
    CASE unit = "Nano" -> 30 [] unit = "Cents" -> 22 [] unit = "MicroNano" -> 24 [] OTHER -> 0

Multiplier(unit) ==
    CASE unit = "Nano" -> 30 [] unit = "Cents" -> 28 [] unit = "MicroNano" -> 24 [] OTHER -> 0

\* $struct_name::new(v)
UnitNew(unit, dec) == [unit |-> unit, dec |-> dec]

\* dec * 10^n and dec / 10^n: the digits stay, the power of ten moves.
MulPow10(dec, n) == Decimal(dec.neg, dec.digits, dec.exp + n)
DivPow10(dec, n) == Decimal(dec.neg, dec.digits, dec.exp - n)

\* to_rai_big_decimal: &self.0 * &*Self::lazy_multiplier()
ToRaiBigDecimal_Unscaled(v) == v.dec

ToRaiBigDecimal(v) == MulPow10(v.dec, Multiplier(v.unit))

\* new_with_rai: v.into() / &*Self::lazy_multiplier()
NewWithRai(unit, rai) == UnitNew(unit, DivPow10(rai, Multiplier(unit)))

ToNano(v)         == NewWithRai("Nano", ToRaiBigDecimal(v))
ToCents(v)        == NewWithRai("Cents", ToRaiBigDecimal(v))
ToMicroNano(v)    == NewWithRai("MicroNano", ToRaiBigDecimal(v))
ToUnboundedRai(v) == UnitNew("UnboundedRai", ToRaiBigDecimal(v))

\* a <= b for digit sequences read as 0.d1 d2 d3 ...
RECURSIVE DigitsLeq(_, _)
DigitsLeq(a, b) ==
    IF a = <<>> THEN TRUE
    ELSE IF b = <<>> THEN FALSE
    ELSE IF Head(a) # Head(b) THEN Head(a) < Head(b)
    ELSE DigitsLeq(Tail(a), Tail(b))

\* 0 <= dec <= u128::MAX
InU128(dec) ==
    \/ dec = Zero
    \/ /\ ~dec.neg
       /\ \/ Len(dec.digits) + dec.exp < Len(U128MaxDigits)
          \/ /\ Len(dec.digits) + dec.exp = Len(U128MaxDigits)
             /\ DigitsLeq(dec.digits, U128MaxDigits)

\* Rai::try_from(&BigDecimal): a Rai of that amount, or an error when the
\* amount is outside 0..=u128::MAX.
RaiTryFrom(dec) == IF InU128(dec) THEN Ok(dec) ELSE Err("RaiOutOfRange")

\* to_rai: Rai::try_from(&self.to_rai_big_decimal())
ToRai(v) == RaiTryFrom(ToRaiBigDecimal(v))

UOff ==
    /\ u_val = None
    /\ u_start = None
    /\ u_steps = 0
    /\ u_rai = None

UInit ==
    /\ u_val \in {UnitNew(unit, dec) : unit \in Units, dec \in Decimals}
    /\ u_start = u_val
    /\ u_steps = 0
    /\ u_rai = None

UOthers == <<chvars, cvars, kvars, svars, bvars, wvars, engine>>

\* One conversion of the chain.
UConvert(to) ==
    /\ engine = "units"
    /\ u_steps < MaxOps
    /\ u_steps' = u_steps + 1
    /\ u_val' = to
    /\ u_rai' = None
    /\ UNCHANGED <<UOthers, u_start>>

UToNano         == UConvert(ToNano(u_val))
UToCents        == UConvert(ToCents(u_val))
UToMicroNano    == UConvert(ToMicroNano(u_val))
UToUnboundedRai == UConvert(ToUnboundedRai(u_val))

\* to_rai() of the value held
UToRai ==
    /\ engine = "units"
    /\ u_rai = None
    /\ u_rai' = ToRai(u_val)
    /\ UNCHANGED <<UOthers, u_val, u_start, u_steps>>

UnitsNext ==
    \/ UToNano
    \/ UToCents
    \/ UToMicroNano
    \/ UToUnboundedRai
    \/ UToRai

\* ===================================================================== whole

Init ==
    /\ engine \in {"channel", "controller"}
    /\ ChInit
    /\ CtrlInit
    /\ KOff
    /\ SNode
    /\ BOff
    /\ WOff
    /\ UOff

Next ==
    \/ ChNext
    \/ CtrlNext

Spec == Init /\ [][Next]_vars

InitWire ==
    /\ engine = "wire"
    /\ ChInit
    /\ CtrlInit
    /\ KInit
    /\ SOff
    /\ BOff
    /\ WOff
    /\ UOff

SpecWire == InitWire /\ [][WireNext]_vars

InitState ==
    /\ engine = "state"
    /\ ChInit
    /\ CtrlInit
    /\ KOff
    /\ SInit
    /\ BOff
    /\ WOff
    /\ UOff

SpecState == InitState /\ [][StateNext]_vars

InitShared ==
    /\ engine = "shared"
    /\ ChInit
    /\ CtrlInit
    /\ KOff
    /\ SOff
    /\ BOff
    /\ WOff
    /\ UOff

SpecShared == InitShared /\ [][SharedNext]_vars

InitRecv ==
    /\ engine = "recv"
    /\ ChInit
    /\ CtrlInit
    /\ KOff
    /\ SOff
    /\ BInit
    /\ WOff
    /\ UOff

SpecRecv == InitRecv /\ [][RecvNext]_vars

InitWallet ==
    /\ engine = "wallet"
    /\ ChInit
    /\ CtrlInit
    /\ KOff
    /\ SOff
    /\ BOff
    /\ WInit
    /\ UOff

SpecWallet == InitWallet /\ [][WalletNext]_vars

InitWalletRace ==
    /\ engine = "wallet_race"
    /\ ChInit
    /\ CtrlInit
    /\ KOff
    /\ SOff
    /\ BOff
    /\ WInit
    /\ UOff

SpecWalletRace == InitWalletRace /\ [][WalletRaceNext]_vars

InitUnits ==
    /\ engine = "units"
    /\ ChInit
    /\ CtrlInit
    /\ KOff
    /\ SOff
    /\ BOff
    /\ WOff
    /\ UInit

SpecUnits == InitUnits /\ [][UnitsNext]_vars

\* ================================================================ properties

\* The cookie a controller's node holds for the controller's peer.
CtrlStored(c) == CookieForSocketAddr(state[NodeOf(c)], PeerAddr(c))

\* Controller c takes the step that looks the cookie up and checks the response.
CtrlChecks(c) == c_pc[c] = "hh_lookup" /\ c_pc'[c] # "hh_lookup"

\* C1: a handshake response handled while a cookie is stored for the peer,
\* whose signature does not verify over that cookie under the response's
\* public key, makes the handler return an error, in the Controller and in
\* the Channel; so does, in particular, a signature over other bytes.
C1_BadSignatureIsAnError ==
    [][ /\ \A c \in Conns :
             ( /\ CtrlChecks(c)
               /\ CtrlStored(c) # NoCookie
               /\ ~Verify(c_local[c].handshake.response.public, CtrlStored(c),
                          c_local[c].handshake.response.signature) )
             => /\ c_ret'[c] \in {"AuthenticationFailed", "StateError"}
                /\ c_pc'[c] = "idle"
        /\ ( /\ ch_pc = "hs_recv_response"
             /\ ch_response' # None
             /\ ch_store # NoCookie
             /\ ~Verify(ch_response'.public, ch_store, ch_response'.signature) )
           => /\ ch_pc' = "returned"
              /\ ch_ret' = "AuthenticationFailed"
      ]_vars

\* A response signed by its own key over a cookie other than the stored one
\* was handled, and run() returned the authentication error.
C1_Witness ==
    /\ ch_pc = "returned"
    /\ ch_ret = "AuthenticationFailed"
    /\ ch_response # None
    /\ ch_response.signature.signer = ch_response.public
    /\ ch_response.signature.msg # ch_store
    /\ ch_store # NoCookie

\* C2: a handshake response handled while no cookie is stored for the peer
\* returns success with no signature verification made (Controller); a
\* response branch of the Channel that ends without an error leaves run() at
\* the head of its loop, running.
C2_MissingCookieIsNotAnError ==
    [][ /\ \A c \in Conns :
             ( /\ CtrlChecks(c)
               /\ CtrlStored(c) = NoCookie
               /\ c_ret'[c] # "StateError" )
             => /\ c_ret'[c] = "Ok"
                /\ c_pc'[c] = "idle"
                /\ c_check'[c] = "skipped"
        /\ ( /\ ch_pc = "hs_recv_response"
             /\ ch_response' # None
             /\ ch_check' \in {"skipped", "passed"} )
           => /\ ch_pc' = "recv_header"
              /\ ch_ret' = "running"
      ]_vars

\* A controller handled a response with no cookie stored for its peer and
\* returned Ok.
C2_Witness ==
    \E c \in Conns :
        /\ c_op[c] = "handle_handshake"
        /\ c_pc[c] = "idle"
        /\ c_ret[c] = "Ok"
        /\ c_check[c] = "skipped"
        /\ CtrlStored(c) = NoCookie

\* C3: when A's controller checks the response that B's controller wrote in
\* reply to a query carrying the cookie A holds for B, the check passes and,
\* the frame carrying nothing else, the handler returns Ok.
C3_HandshakeSuccess ==
    [][ \A a \in Conns :
           LET b == PeerConn(a) IN
           ( /\ CtrlChecks(a)
             /\ c_src[a] = "peer"
             /\ c_op[b] = "handle_handshake"
             /\ c_ret[b] = "Ok"
             /\ c_asked[b] # NoCookie
             /\ c_asked[b] = CtrlStored(a)
             /\ c_ret'[a] # "StateError" )
           => /\ c_local[a].handshake.response = c_sent[b][2]
              /\ c_check'[a] = "passed"
              /\ c_ret'[a] = "Ok"
      ]_vars

\* A sent its query to B, B answered it, and A handled B's answer and
\* returned Ok.
C3_Witness ==
    \E a \in Conns :
        LET b == PeerConn(a) IN
        /\ c_op[a] = "handle_handshake" /\ c_src[a] = "peer"
        /\ c_pc[a] = "idle" /\ c_ret[a] = "Ok" /\ c_check[a] = "passed"
        /\ c_op[b] = "handle_handshake" /\ c_src[b] = "peer"
        /\ c_pc[b] = "idle" /\ c_ret[b] = "Ok"
        /\ c_asked[b] = CtrlStored(a)
        /\ Len(c_sent[b]) = 2

\* The frames send_handshake and send_telemetry_req write.
QueryHeader     == HeaderNew(LocalNetwork, "NodeIdHandshake", Query(ExtensionsNew))
ResponseHeader  == HeaderNew(LocalNetwork, "NodeIdHandshake", Response(ExtensionsNew))
TelemetryHeader == HeaderNew(LocalNetwork, "TelemetryReq", ExtensionsNew)

\* The positions of run() before its loop, and inside a handler.
ChSendPhase == {"send_handshake_header", "set_cookie", "send_handshake_query",
                "send_telemetry_req"}
ChInHandler == {"recv_keepalive", "recv_publish", "recv_confirm_req", "recv_confirm_ack",
                "recv_telemetry_req", "hs_recv_query", "hs_send_header",
                "hs_send_response", "hs_recv_response"}
\* The message types run() has a handler for.
ChSupported == {"Keepalive", "Publish", "ConfirmReq", "ConfirmAck", "NodeIdHandshake",
                "TelemetryReq"}

\* C4: for a handshake frame with both the query and the response bit, reply
\* items are written only once the response's cookie lookup and signature
\* check are done (and not at all if the check failed).
C4_ReplyOnlyAfterTheCheck ==
    /\ ( /\ ch_cur # None
         /\ ch_cur.message_type = "NodeIdHandshake"
         /\ IsQuery(ch_cur.ext) /\ IsResponse(ch_cur.ext)
         /\ ch_replied > 0 )
       => ch_check \in {"skipped", "passed"}
    /\ \A c \in Conns :
         ( /\ c_local[c].header # None
           /\ IsQuery(c_local[c].header.ext) /\ IsResponse(c_local[c].header.ext)
           /\ Len(c_sent[c]) > 0 )
         => c_check[c] \in {"skipped", "passed"}

\* C5: a handshake frame with the query bit whose handling returned Ok has
\* had exactly one response frame written for it: the response header and a
\* response payload.
C5_QueryAlwaysAnswered ==
    \A c \in Conns :
        ( /\ c_op[c] = "handle_handshake"
          /\ c_pc[c] = "idle"
          /\ c_ret[c] = "Ok"
          /\ c_asked[c] # NoCookie )
        => /\ Len(c_sent[c]) = 2
           /\ c_sent[c][1] = ResponseHeader
           /\ c_sent[c][2].kind = "response"

\* C6: once send_handshake has returned Ok, the cookie stored under the
\* remote address is the one in the query written, and what was written is
\* the handshake header with the query extension and then that query.
C6_StoredCookieIsTheSentCookie ==
    /\ \A c \in Conns :
         (c_op[c] = "send_handshake" /\ c_pc[c] = "idle" /\ c_ret[c] = "Ok")
         => /\ CtrlStored(c) # NoCookie
            /\ c_sent[c] = <<QueryHeader, NodeIdHandshakeQuery(CtrlStored(c))>>
    /\ ch_pc \notin {"send_handshake_header", "set_cookie", "send_handshake_query",
                     "returned"}
       => /\ ch_store # NoCookie
          /\ Len(ch_out) >= 2
          /\ ch_out[1] = QueryHeader
          /\ ch_out[2] = NodeIdHandshakeQuery(ch_store)

\* send_handshake returned Ok after writing its two items.
C6_Witness ==
    \E c \in Conns :
        /\ c_op[c] = "send_handshake" /\ c_pc[c] = "idle" /\ c_ret[c] = "Ok"
        /\ Len(c_sent[c]) = 2
        /\ c_sent[c][2].cookie = CtrlStored(c)

\* C7: run() has written the handshake query and then the telemetry request
\* before its first read; a failure of either send returns that error with
\* nothing read.
C7_SendsBeforeFirstRead ==
    /\ (ch_reads > 0 \/ ch_pc \notin ChSendPhase \cup {"returned"})
       => /\ Len(ch_out) >= 3
          /\ ch_out[1] = QueryHeader
          /\ ch_out[2] = NodeIdHandshakeQuery(ch_cookie)
          /\ ch_out[3] = TelemetryHeader
    /\ (ch_pc = "returned" /\ Len(ch_out) < 3)
       => /\ ch_reads = 0
          /\ ch_frames = 0
          /\ ch_ret \in {"TransportError", "StateError"}

\* The loop has read a header, after the three items were written.
C7_Witness ==
    /\ ch_reads > 0
    /\ ch_frames > 0
    /\ Len(ch_out) >= 3

\* C8: a handler runs (a payload is read) only for a header that passed
\* validation; a header that fails it ends run() with the validation error
\* and nothing more happens on the connection.
C8_ValidatedBeforePayload ==
    /\ ch_pc \in ChInHandler \cup {"panicked"}
       => ch_cur # None /\ HeaderValidate(ch_cur)
    /\ (ch_cur # None /\ ~HeaderValidate(ch_cur))
       => /\ ch_pc = "returned"
          /\ ch_ret = "ValidationError"
          /\ ~ENABLED ChNext

\* A header of another network was received and run() returned the
\* validation error.
C8_Witness ==
    /\ ch_cur # None
    /\ ch_cur.network # LocalNetwork
    /\ ch_pc = "returned"
    /\ ch_ret = "ValidationError"

\* C9: an error of a read, a decode, a validation or a handler is what run()
\* returns, at once; after it nothing is read and nothing is retried.
C9_ErrorEndsTheLoop ==
    /\ ch_last # "Ok"
       => /\ ch_pc = "returned"
          /\ ch_ret = ch_last
    /\ ch_pc = "returned"
       => /\ ch_ret \in Errors
          /\ ~ENABLED ChNext

\* A payload failed to decode inside a handler and run() returned that error.
C9_Witness ==
    /\ ch_pc = "returned"
    /\ ch_ret = "DecodeError"
    /\ ch_cur # None
    /\ HeaderValidate(ch_cur)
    /\ ch_frames > 0

\* What run() does with a validated header of a type it has no handler for:
\* it panics (todo!), which is none of the errors it returns, and the
\* connection is over.
ChUnsupportedPanics ==
    ( /\ ch_cur # None
      /\ HeaderValidate(ch_cur)
      /\ ch_cur.message_type \notin ChSupported )
    => /\ ch_pc = "panicked"
       /\ ch_ret = "Panic"
       /\ ch_ret \notin Errors
       /\ ~ENABLED ChNext

\* C10 (as stated): every engine ends the connection, with an outcome of its
\* own, on a validated header of the bulk-sync family or a TelemetryAck.
C10_UnsupportedEndsConnection ==
    /\ ChUnsupportedPanics
    /\ \A c \in Conns :
         (c_op[c] = "handle_telemetry_ack" /\ c_pc[c] = "idle")
         => c_ret[c] \notin {"Ok"} \cup Errors

\* C10 (amended): Channel::run panics on such a header; the Controller has a
\* handler for TelemetryAck, which returns Ok and leaves the connection up.
C10_ChannelPanicsControllerAccepts ==
    /\ ChUnsupportedPanics
    /\ \A c \in Conns :
         c_op[c] = "handle_telemetry_ack" => c_ret[c] = "Ok" /\ c_pc[c] = "idle"

\* run() panicked on a validated TelemetryAck header.
C10_Witness ==
    /\ ch_pc = "panicked"
    /\ ch_cur # None
    /\ HeaderValidate(ch_cur)
    /\ ch_cur.message_type = "TelemetryAck"

\* ---------------------------------------------------- Keepalive on the wire

\* The peers of the slots that are not all-zero, in slot order.
NonZeroPeers(slots) ==
    LET nz == SelectSeq(slots, LAMBDA x : x # ZeroSlot)
    IN  [i \in 1..Len(nz) |-> [peer |-> nz[i]]]

\* C11: Keepalive::deserialize of a payload of exactly 8 slots returns Ok
\* with the peers of the slots that are not all-zero, in slot order, wherever
\* the all-zero slots are; so with 0 to 8 peers.
C11_KeepaliveZeroSkip ==
    ( /\ k_pc \in {"deserialized", "serialized"}
      /\ Len(k_data.slots) = KeepalivePeers
      /\ k_data.trailing = 0 )
    => /\ k_result = Ok(NonZeroPeers(k_data.slots))
       /\ Len(k_result.value) \in 0..KeepalivePeers
       /\ Len(k_result.value) =
            Cardinality({i \in 1..KeepalivePeers : k_data.slots[i] # ZeroSlot})

\* A payload with an all-zero slot between two different peers, and a peer
\* after more all-zero slots, was decoded to those three peers in order.
C11_Witness ==
    /\ k_pc = "deserialized"
    /\ Len(k_data.slots) = KeepalivePeers
    /\ k_data.trailing = 0
    /\ k_data.slots[1] = 2 /\ k_data.slots[2] = ZeroSlot /\ k_data.slots[3] = 1
    /\ k_data.slots[KeepalivePeers] = 2
    /\ k_result.kind = "Ok"
    /\ k_result.value = <<[peer |-> 2], [peer |-> 1], [peer |-> 2]>>

\* C12: serialize of a Keepalive returns bytes, of exactly Keepalive::len
\* bytes under any header, that deserialize back to the same Keepalive.
C12_KeepaliveRoundTrip ==
    k_pc = "serialized"
    => /\ k_bytes.kind = "Ok"
       /\ \A header \in {None, HeaderNew(LocalNetwork, "Keepalive", ExtensionsNew)} :
            /\ DataLen(k_bytes.value) = KeepaliveLen(header)
            /\ KeepaliveDeserialize(header, k_bytes.value) = Ok(k_result.value)

\* C13: Keepalive::deserialize returns an error for every input whose length
\* is not Keepalive::len, shorter or longer, and never panics.
C13_WrongLengthIsAnError ==
    k_pc \in {"deserialized", "serialized"}
    => /\ k_result.kind # "Panic"
       /\ \A header \in {None, HeaderNew(LocalNetwork, "Keepalive", ExtensionsNew)} :
            DataLen(k_data) # KeepaliveLen(header) => k_result.kind = "Err"

\* ---------------------------------------------------------- the State object

\* C14: after any sequence of calls, the cookie of an address is the cookie
\* of the most recent set_cookie for it (None if there was none), and that is
\* what cookie_for_socket_addr returns.
C14_LastCookieWins ==
    engine = "state"
    => /\ \A a \in Addrs :
            /\ CookieForSocketAddr(s_cookies, a) = s_last[a]
            /\ s_sets[a] = 0 => CookieForSocketAddr(s_cookies, a) = NoCookie
       /\ ( /\ s_op # None
            /\ s_op.op.name = "cookie_for_socket_addr"
            /\ s_op.ret.kind = "Ok" )
          => s_op.ret.value = s_last[s_op.op.socket_addr]

\* A cookie was set twice for one address and never for the other; the
\* lookup of the first returned the second cookie.
C14_Witness ==
    /\ engine = "state"
    /\ s_sets["addrA"] = 2
    /\ s_sets["addrB"] = 0
    /\ s_op # None
    /\ s_op.op.name = "cookie_for_socket_addr"
    /\ s_op.op.socket_addr = "addrA"
    /\ s_op.ret = Ok(s_last["addrA"])
    /\ s_last["addrA"] # NoCookie

\* C15: a set_cookie for one address changes neither the cookie of any other
\* address nor the ledger part of the state.
C15_SetCookieIsLocal ==
    [][ (s_calls' = s_calls + 1 /\ s_op'.op.name = "set_cookie")
        => /\ \A y \in Addrs \ {s_op'.op.socket_addr} :
                CookieForSocketAddr(s_cookies', y) = CookieForSocketAddr(s_cookies, y)
           /\ s_ledger' = s_ledger
      ]_vars

\* With a block in the ledger and a cookie stored for addrB, a different
\* cookie was set for addrA.
C15_Witness ==
    /\ engine = "state"
    /\ s_op # None
    /\ s_op.op.name = "set_cookie"
    /\ s_op.op.socket_addr = "addrA"
    /\ s_op.ret.kind = "Ok"
    /\ s_cookies["addrB"] # NoCookie
    /\ s_cookies["addrA"] # s_cookies["addrB"]
    /\ s_ledger # NoLedger

\* ------------------------------------------------- two tasks, one shared state

\* C16: two connection tasks of one node, toward two remote addresses, in
\* every interleaving: the cookie stored for a task's address is the one the
\* task stored; the store is written only by the task that holds the state's
\* lock, one address at a time; and a task's response check ends as it would
\* with the task alone (decided by its own cookie and the response).
C16_TasksDoNotInterfere ==
    [][ engine = "shared" =>
        /\ \A c \in Conns :
             /\ CtrlStored(c) = c_mine[c]
             /\ CtrlChecks(c)
                => \/ c_ret'[c] = "StateError"
                   \/ c_check'[c] = CtrlResponseCheck(c_mine[c],
                                                      c_local[c].handshake.response)
        /\ state' # state
           => \E c \in Conns :
                /\ lock[NodeOf(c)] = c
                /\ c_pc[c] = "sh_set_cookie"
                /\ \A a \in Addrs \ {PeerAddr(c)} :
                     state'[NodeOf(c)][a] = state[NodeOf(c)][a]
      ]_vars

\* Both tasks have stored different cookies, and the first task's check of a
\* response signed over its own cookie passed.
C16_Witness ==
    /\ engine = "shared"
    /\ c_mine["c1"] # NoCookie
    /\ c_mine["c2"] # NoCookie
    /\ c_mine["c1"] # c_mine["c2"]
    /\ c_op["c1"] = "handle_handshake"
    /\ c_check["c1"] = "passed"
    /\ c_ret["c1"] = "Ok"

\* C17: across the recv calls on one channel the buffer's length never
\* decreases and is at least the largest expected length requested so far;
\* the payload is decoded only after exactly expected_len bytes were read, and
\* a stream that ends before that many bytes makes recv return an error
\* without decoding.
C17_BufferDiscipline ==
    [][ /\ b_buf' >= b_buf
        /\ b_buf' >= b_max'
        /\ b_pc' = "decode" => b_read' = b_want'
        /\ (b_pc = "decode" /\ b_pc' = "idle") =>
               /\ b_read = b_want
               /\ b_ret'.kind = "Ok" => b_ret'.value.decoded = b_want
        /\ (b_pc = "read" /\ b_stream < b_want) =>
               /\ b_pc' = "idle"
               /\ b_ret'.kind = "Err"
      ]_vars

\* A smaller payload was received and decoded after a larger one: the buffer
\* is longer than the payload read.
C17_Witness ==
    /\ b_pc = "idle"
    /\ b_calls >= 2
    /\ b_ret # None
    /\ b_ret.kind = "Ok"
    /\ 0 < b_want
    /\ b_want < b_buf
    /\ b_buf = b_max

\* C18: handling a Keepalive frame reads exactly 8 peer slots (one recv each,
\* the handler ending at the eighth or at the first failed recv), writes
\* nothing to the peer, and leaves the cookie store and the ledger as they are.
C18_KeepaliveOnlyReads ==
    [][ /\ ch_pc = "recv_keepalive" =>
               /\ ch_reads' = ch_reads + 1
               /\ ch_i < KeepalivePeers
               /\ ch_out' = ch_out
               /\ UNCHANGED <<ch_store, s_cookies, s_ledger>>
               /\ ch_pc' = "recv_keepalive" => ch_i' = ch_i + 1
               /\ ch_pc' = "recv_header" => ch_i = KeepalivePeers - 1 /\ ch_last' = "Ok"
               /\ ch_pc' \notin {"recv_keepalive", "recv_header"} =>
                      ch_pc' = "returned" /\ ch_ret' \in RecvErrors
        /\ (ch_pc # "recv_keepalive" /\ ch_pc' = "recv_keepalive") => ch_i' = 0
        /\ \A c \in Conns :
              (c_ops' = c_ops + 1 /\ c_pc[c] = "idle" /\ c_op'[c] = "handle_keepalive") =>
                 /\ c_pc'[c] = "idle"
                 /\ c_ret'[c] = "Ok"
                 /\ c_sent'[c] = <<>>
                 /\ UNCHANGED <<state, s_cookies, s_ledger>>
      ]_vars

\* The receive loop is back at its head after one Keepalive frame: the header
\* and eight peer slots read, nothing written since the handshake was sent.
C18_Witness ==
    /\ ch_pc = "recv_header"
    /\ ch_last = "Ok"
    /\ ch_frames = 1
    /\ ch_reads = 1 + KeepalivePeers
    /\ ch_i = 0

\* The call of task t returns in this step.
WReturns(t, op) ==
    /\ w_op[t] # None
    /\ w_op[t].op = op
    /\ w_pc[t] \notin {"idle", "panicked"}
    /\ w_pc'[t] \in {"idle", "panicked"}

\* C19: add returns an error when the reference is already stored, and the
\* file is then as it was, the wallet under the reference not replaced; when
\* the reference is new, add fails only on an I/O failure, and when it returns
\* Ok the file holds the wallet under the reference and every other wallet as
\* before.
C19_AddRefusesExisting ==
    [][ \A t \in Tasks :
          (WReturns(t, "add") /\ w_before[t].kind = "storage") =>
             LET reference == w_op[t].reference
                 before == w_before[t].wallets
             IN  IF ContainsKey(before, reference)
                 THEN /\ w_ret'[t] = Err("AlreadyExists")
                      /\ w_file' = w_before[t]
                 ELSE /\ w_ret'[t] \in {Ok("unit"), Err("IoError")}
                      /\ w_ret'[t] = Ok("unit") =>
                            /\ w_file' = FileOf([before EXCEPT ![reference] = w_op[t].wallet])
                            /\ \A r \in Refs \ {reference} : w_file'.wallets[r] = before[r]
      ]_vars

\* An add was refused: the file is as it was when the call began, the wallet
\* under the reference is not the one given, and another reference is stored.
C19_Witness ==
    \E t \in Tasks :
        /\ w_pc[t] = "idle"
        /\ w_op[t] # None
        /\ w_op[t].op = "add"
        /\ w_ret[t] = Err("AlreadyExists")
        /\ w_file.kind = "storage"
        /\ w_file = w_before[t]
        /\ w_file.wallets[w_op[t].reference] # w_op[t].wallet
        /\ \A r \in Refs : ContainsKey(w_file.wallets, r)

\* C20: delete returns an error when the reference is not stored, and the file
\* is then as it was; when it is stored, delete fails only on an I/O failure,
\* and when it returns Ok the file holds every other wallet as before and not
\* that one; a wallet() lookup of a reference deleted and not added since fails.
C20_DeleteRemovesOne ==
    [][ \A t \in Tasks :
          /\ (WReturns(t, "delete") /\ w_before[t].kind = "storage") =>
                LET reference == w_op[t].reference
                    before == w_before[t].wallets
                IN  IF ~ContainsKey(before, reference)
                    THEN /\ w_ret'[t] = Err("DoesNotExist")
                         /\ w_file' = w_before[t]
                    ELSE /\ w_ret'[t] \in {Ok("unit"), Err("IoError")}
                         /\ w_ret'[t] = Ok("unit") =>
                               /\ w_file'.kind = "storage"
                               /\ ~ContainsKey(w_file'.wallets, reference)
                               /\ \A r \in Refs \ {reference} :
                                     w_file'.wallets[r] = before[r]
          /\ (w_op'[t] # w_op[t] /\ w_op'[t].op = "wallet"
                  /\ w_op'[t].reference \in w_gone) =>
                w_ret'[t].kind = "Err"
      ]_vars

\* A wallet was deleted with another one kept, and the lookup of the deleted
\* reference that followed failed.
C20_Witness ==
    \E t \in Tasks :
        /\ w_pc[t] = "idle"
        /\ w_op[t] # None
        /\ w_op[t].op = "wallet"
        /\ w_op[t].reference \in w_gone
        /\ w_ret[t] = Err("NotFound")
        /\ w_file.kind = "storage"
        /\ \E r \in Refs : ContainsKey(w_file.wallets, r)

\* Task t makes a wallet() lookup in this step.
WLooksUp(t) ==
    /\ w_op'[t] # w_op[t]
    /\ w_op'[t].op = "wallet"

\* C21: after a successful add of wallet w under reference r, and whatever adds
\* and deletes of other references followed, wallet(r, None) returns w when
\* the file is readable; it fails only on a file a failed write left behind.
C21_LookupReturnsAdded ==
    [][ \A t \in Tasks :
          (WLooksUp(t) /\ w_have[w_op'[t].reference] # NoWallet) =>
             /\ w_file.kind # "missing"
             /\ w_file.kind = "storage" => w_ret'[t] = Ok(w_have[w_op'[t].reference])
             /\ w_file.kind = "broken" => w_ret'[t] = Err("ParseError")
      ]_vars

\* A lookup returned the wallet added under its reference while the file holds
\* another wallet under another reference, added in this run too.
C21_Witness ==
    \E t \in Tasks :
        /\ w_pc[t] = "idle"
        /\ w_op[t] # None
        /\ w_op[t].op = "wallet"
        /\ w_have[w_op[t].reference] # NoWallet
        /\ w_ret[t] = Ok(w_have[w_op[t].reference])
        /\ \E r \in Refs \ {w_op[t].reference} :
              /\ w_have[r] # NoWallet
              /\ w_have[r] # w_have[w_op[t].reference]

\* The rai in one of each unit, as powers of ten.
RaiExp(unit) ==
    CASE unit = "Nano" -> 30 [] unit = "Cents" -> 28 [] unit = "MicroNano" -> 24 [] OTHER -> 0

\* The amount of v in rai.
RaiAmount(v) == Decimal(v.dec.neg, v.dec.digits, v.dec.exp + RaiExp(v.unit))

\* The amount in rai is a whole number of rai.
WholeRai(v) == RaiAmount(v).exp >= 0

C24_ResponseOnlyReadsTheStore ==
    [][ \A c \in Conns :
          (c_op'[c] = "handle_handshake" /\ c_pc'[c] # c_pc[c]) =>
             /\ state' = state
             /\ (CtrlChecks(c) /\ c_ret'[c] # "StateError") =>
                    c_check'[c] = CtrlResponseCheck(CtrlStored(c),
                                                    c_local[c].handshake.response)
      ]_vars

\* A response was verified against the stored cookie, and the cookie is still
\* stored for the peer's address after the handler returned.
C24_Witness ==
    \E c \in Conns :
        /\ engine = "controller"
        /\ c_pc[c] = "idle"
        /\ c_op[c] = "handle_handshake"
        /\ c_check[c] = "passed"
        /\ c_ret[c] = "Ok"
        /\ CtrlStored(c) # NoCookie
        /\ CtrlStored(c) = c_mine[c]

\* The handshake responses among the items of a sequence written to a stream.
ResponsesIn(sent) ==
    {sent[i] : i \in {j \in 1..Len(sent) : sent[j].kind = "response"}}

C26_PublishReachesTheLedger ==
    [][ /\ (ch_pc = "recv_publish" /\ ch_pc' = "recv_header") => s_ledger' # NoLedger
        /\ \A c \in Conns :
              (c_ops' = c_ops + 1 /\ c_pc[c] = "idle" /\ c_op'[c] = "handle_publish"
                  /\ c_ret'[c] = "Ok")
                 => s_ledger' # NoLedger
      ]_vars

\* C27: run() has no normal exit: whenever it has returned, what it returned
\* is an error, the one the failed call gave; a call that succeeds never ends
\* run(); a handler that ends with Ok leads back to the head of the loop,
\* where the next header is read.
C27_RunReturnsOnlyErrors ==
    [][ /\ ch_pc' = "returned" =>
               /\ ch_ret' \in Errors
               /\ ch_ret' = ch_last'
        /\ ch_last' = "Ok" =>
               /\ ch_pc' # "returned"
               /\ ch_ret' \in {"running", "Panic"}
        /\ (ch_pc \in ChInHandler /\ ch_pc' \notin ChInHandler /\ ch_last' = "Ok") =>
               /\ ch_pc' = "recv_header"
               /\ ch_ret' = "running"
        /\ (ch_pc = "recv_header" /\ ch_frames < MaxFrames) => ENABLED ChRecvHeader
      ]_vars

\* Two valid frames were handled and run() is at the head of its loop again.
C27_Witness ==
    /\ ch_pc = "recv_header"
    /\ ch_ret = "running"
    /\ ch_last = "Ok"
    /\ ch_frames = MaxFrames

\* The headers among the items written to a stream.
HeadersIn(sent) == {sent[i] : i \in {j \in 1..Len(sent) : sent[j].kind = "header"}}

C29_LockHeldForOneStateCall ==
    [][ engine = "shared" =>
        \A c \in Conns :
            LET n == NodeOf(c) IN
            /\ lock[n] = c =>
                   /\ c_pc[c] \in {"sh_set_cookie", "hh_lookup"}
                   /\ ENABLED (CtrlShSetCookie(c) \/ CtrlHhLookup(c))
            /\ (lock[n] = c /\ c_pc'[c] # c_pc[c]) => lock'[n] = NoOwner
            /\ c_pc[c] \in {"idle", "sh_send_query"} => lock[n] # c
            /\ (c_pc[c] \in {"sh_lock", "hh_lock"} /\ lock[n] = NoOwner) =>
                   ENABLED (CtrlShLock(c) \/ CtrlHhLock(c))
      ]_vars

\* One task holds the lock for its set_cookie while the other one, its cookie
\* stored, has yet to send its query.
C29_Witness ==
    /\ engine = "shared"
    /\ lock[NodeOf("c1")] = "c1"
    /\ c_pc["c1"] = "sh_set_cookie"
    /\ c_pc["c2"] = "sh_send_query"
    /\ c_mine["c2"] # NoCookie

\* C30: when the last add call of each of the two tasks returned Ok, for two
\* different references, and no call is under way, the file holds both
\* wallets under their references.
C30_BothAddsAreKept ==
    ( /\ engine = "wallet_race"
      /\ \A t \in Tasks :
            /\ w_pc[t] = "idle"
            /\ w_op[t] # None
            /\ w_ret[t] = Ok("unit")
      /\ w_op["t1"].reference # w_op["t2"].reference )
    => /\ w_file.kind = "storage"
       /\ \A t \in Tasks : w_file.wallets[w_op[t].reference] = w_op[t].wallet

====
